---- MODULE Spec2Model ----
(***************************************************************************)
(* figma-to-rn-toolkit: the node-tree to React Native component pipeline   *)
(* (ComponentParser, StyleParser, ReactNativeGenerator) and the batch      *)
(* driver FigmaToReactNative.generateMultipleComponents.                   *)
(*                                                                         *)
(* Strings are sequences of one-character strings.  A FigmaNode is a       *)
(* function whose DOMAIN holds exactly the fields that are present         *)
(* (node.x !== undefined  <=>  "x" \in DOMAIN node).  A style mapping is   *)
(* a sequence of [k, v] entries in insertion order (Object.entries order); *)
(* style values are tagged tuples <<"num", n>>, <<"str", s>>,              *)
(* <<"rgb", r, g, b>>, <<"rgba", r, g, b, num, den>>.                      *)
(***************************************************************************)
EXTENDS Integers, Sequences, FiniteSets, TLC

(***************************************************************************)
(* Characters and string helpers                                           *)
(***************************************************************************)
LowerChars == <<"a","b","c","d","e","f","g","h","i","j","k","l","m",
                "n","o","p","q","r","s","t","u","v","w","x","y","z">>
UpperChars == <<"A","B","C","D","E","F","G","H","I","J","K","L","M",
                "N","O","P","Q","R","S","T","U","V","W","X","Y","Z">>
DigitChars == <<"0","1","2","3","4","5","6","7","8","9">>
SpaceChars == {" ", "\t", "\n"}

Range(s) == {s[i] : i \in DOMAIN s}
LowerSet == Range(LowerChars)
UpperSet == Range(UpperChars)
DigitSet == Range(DigitChars)
IsLower(c) == c \in LowerSet
IsUpper(c) == c \in UpperSet
IsDigit(c) == c \in DigitSet
IsLetter(c) == IsLower(c) \/ IsUpper(c)
IsSpace(c) == c \in SpaceChars

IndexIn(seq, c) == CHOOSE i \in DOMAIN seq : seq[i] = c
\* String.prototype.toLowerCase / toUpperCase on one character
ToLowerChar(c) == IF IsUpper(c) THEN LowerChars[IndexIn(UpperChars, c)] ELSE c
ToUpperChar(c) == IF IsLower(c) THEN UpperChars[IndexIn(LowerChars, c)] ELSE c
ToLowerCase(s) == [i \in DOMAIN s |-> ToLowerChar(s[i])]
\* word.charAt(0).toUpperCase() + word.slice(1)
UpperFirst(s) == [i \in DOMAIN s |-> IF i = 1 THEN ToUpperChar(s[i]) ELSE s[i]]
\* word.charAt(0).toUpperCase() + word.slice(1).toLowerCase()
Capitalize(s) == [i \in DOMAIN s |-> IF i = 1 THEN ToUpperChar(s[i]) ELSE ToLowerChar(s[i])]

\* String(n) for a non-negative integer: its decimal digits
RECURSIVE NumToString(_)
NumToString(n) ==
  IF n < 10 THEN <<DigitChars[n + 1]>>
  ELSE NumToString(n \div 10) \o <<DigitChars[(n % 10) + 1]>>

\* s.replace(/[^a-zA-Z0-9\s]/g, '')
StripSpecial(s) == SelectSeq(s, LAMBDA c : IsLetter(c) \/ IsDigit(c) \/ IsSpace(c))

\* s.split(/\s+/): a run of whitespace separates two words; a leading or
\* trailing run yields an empty first or last word; '' yields [''].
RECURSIVE SplitFrom(_, _, _)
SplitFrom(s, i, words) ==
  IF i > Len(s) THEN words
  ELSE IF IsSpace(s[i])
       THEN IF i > 1 /\ IsSpace(s[i - 1])
            THEN SplitFrom(s, i + 1, words)
            ELSE SplitFrom(s, i + 1, Append(words, <<>>))
       ELSE SplitFrom(s, i + 1,
              [words EXCEPT ![Len(words)] = Append(words[Len(words)], s[i])])
SplitWhitespace(s) == SplitFrom(s, 1, << <<>> >>)

RECURSIVE JoinWords(_)
JoinWords(words) ==
  IF words = <<>> THEN <<>> ELSE Head(words) \o JoinWords(Tail(words))

\* s.trim() is non-empty
NonBlank(s) == \E i \in DOMAIN s : ~IsSpace(s[i])

ContainerStr == <<"c","o","n","t","a","i","n","e","r">>

(***************************************************************************)
(* ComponentParser: naming                                                 *)
(***************************************************************************)
generateStyleName(nodeName) ==
  LET words  == SplitWhitespace(StripSpecial(nodeName))
      mapped == [i \in DOMAIN words |->
                   IF i = 1 THEN ToLowerCase(words[i]) ELSE Capitalize(words[i])]
      name   == JoinWords(mapped)
  IN IF Len(name) = 0 \/ ~IsLetter(name[1])
     THEN ContainerStr \o UpperFirst(name)
     ELSE name

\* ComponentParser.generateComponentName
generateComponentName(nodeName) ==
  LET words == SplitWhitespace(StripSpecial(nodeName))
      name  == JoinWords([i \in DOMAIN words |-> Capitalize(words[i])])
  IN IF Len(name) = 0 \/ ~IsUpper(name[1])
     THEN <<"C","o","m","p","o","n","e","n","t">> \o name
     ELSE name


(***************************************************************************)
(* ComponentParser: classification and renderability                       *)
(***************************************************************************)
Has(n, f) == f \in DOMAIN n
\* x.visible !== false
NotHidden(x) == ~(Has(x, "visible") /\ x.visible = FALSE)
Children(n) == IF Has(n, "children") THEN n.children ELSE <<>>

\* NODE_TO_COMPONENT_MAP
KnownTypes == {"FRAME", "RECTANGLE", "ELLIPSE", "POLYGON", "STAR", "VECTOR",
               "TEXT", "GROUP", "COMPONENT", "INSTANCE", "BOOLEAN_OPERATION", "LINE"}
getComponentType(node) == IF node.type = "TEXT" THEN "Text" ELSE "View"

\* variant: VECTOR is missing from imageTypes
shouldRenderAsImage_NoVector(node) ==
  node.type \in {"BOOLEAN_OPERATION", "STAR", "POLYGON"}
shouldRenderAsImage(node) ==
  node.type \in {"VECTOR", "BOOLEAN_OPERATION", "STAR", "POLYGON"}

extractTextContent(node) ==
  IF node.type = "TEXT" /\ Has(node, "characters") /\ node.characters # <<>>
  THEN node.characters ELSE <<>>

hasVisualContent(node) ==
  \/ node.type = "TEXT" /\ Has(node, "characters") /\ NonBlank(node.characters)
  \/ Has(node, "fills") /\ \E i \in DOMAIN node.fills : NotHidden(node.fills[i])
  \/ Has(node, "strokes") /\ \E i \in DOMAIN node.strokes : NotHidden(node.strokes[i])
  \/ Has(node, "effects") /\ \E i \in DOMAIN node.effects : NotHidden(node.effects[i])

RECURSIVE shouldRenderNode(_)
\* variant: a child counts when it has visual content of its own
hasRenderableChildren_Shallow(node) ==
  Has(node, "children") /\
  \E i \in DOMAIN node.children :
     NotHidden(node.children[i]) /\ hasVisualContent(node.children[i])
hasRenderableChildren(node) ==
  Has(node, "children") /\
  \E i \in DOMAIN node.children :
     NotHidden(node.children[i]) /\ shouldRenderNode(node.children[i])

\* variant: the visible flag is not looked at
shouldRenderNode_IgnoresVisible(node) ==
  IF ~hasVisualContent(node) /\ ~hasRenderableChildren(node) THEN FALSE
  ELSE TRUE
shouldRenderNode(node) ==
  IF ~NotHidden(node) THEN FALSE
  ELSE IF ~hasVisualContent(node) /\ ~hasRenderableChildren(node) THEN FALSE
  ELSE TRUE

(***************************************************************************)
(* StyleParser                                                             *)
(***************************************************************************)
RECURSIVE GCD(_, _)
GCD(a, b) == IF b = 0 THEN a ELSE GCD(b, a % b)
\* a non-negative rational q = [n, d] printed as a number
RatVal(q) == LET g == GCD(q.n, q.d) IN
             IF q.d \div g = 1 THEN <<"num", q.n \div g>>
             ELSE <<"rat", q.n \div g, q.d \div g>>
RatMul(p, q) == [n |-> p.n * q.n, d |-> p.d * q.d]
RatIsOne(q) == q.n = q.d
RatIsZero(q) == q.n = 0
One == [n |-> 1, d |-> 1]
\* Math.round(c * 255) for a channel c = [n, d] in 0..1
Round255(c) == (2 * c.n * 255 + c.d) \div (2 * c.d)

HasKey(styles, key) == \E i \in DOMAIN styles : styles[i].k = key
Get(styles, key) == styles[CHOOSE i \in DOMAIN styles : styles[i].k = key].v
\* styles[key] = value: an existing key keeps its position
Put(styles, key, value) ==
  IF HasKey(styles, key)
  THEN [i \in DOMAIN styles |->
          IF styles[i].k = key THEN [k |-> key, v |-> value] ELSE styles[i]]
  ELSE Append(styles, [k |-> key, v |-> value])
\* delete styles[key]
Del(styles, key) == SelectSeq(styles, LAMBDA e : e.k # key)
PutIf(cond, styles, key, value) == IF cond THEN Put(styles, key, value) ELSE styles
Keys(styles) == {styles[i].k : i \in DOMAIN styles}

colorToString(color) ==
  LET r == Round255(color.r)
      g == Round255(color.g)
      b == Round255(color.b)
      a == IF Has(color, "a") THEN color.a ELSE One
  IN IF RatIsOne(a) THEN <<"rgb", r, g, b>>
     ELSE <<"rgba", r, g, b>> \o Tail(RatVal(a))

\* fills.find(fill => fill.visible !== false && fill.type === 'SOLID' && fill.color)
\* variant: a hidden fill is accepted too
IsSolidFill_AnyVisibility(fill) == fill.type = "SOLID" /\ Has(fill, "color")
IsSolidFill(fill) == NotHidden(fill) /\ fill.type = "SOLID" /\ Has(fill, "color")
\* <<>> stands for undefined, <<c>> for the string c
fillToBackgroundColor(fills) ==
  IF fills = <<>> THEN <<>>
  ELSE IF \E i \in DOMAIN fills : IsSolidFill(fills[i])
  THEN LET j == CHOOSE i \in DOMAIN fills :
                   IsSolidFill(fills[i]) /\ \A h \in 1..(i - 1) : ~IsSolidFill(fills[h])
           solidFill == fills[j]
           opacity == IF Has(solidFill, "opacity") THEN solidFill.opacity ELSE One
           alpha == IF Has(solidFill.color, "a")
                    THEN RatMul(solidFill.color.a, opacity) ELSE opacity
           color == [r |-> solidFill.color.r, g |-> solidFill.color.g,
                     b |-> solidFill.color.b, a |-> alpha]
       IN <<colorToString(color)>>
  ELSE <<>>

JustifyMap(v) == CASE v = "MIN" -> "flex-start" [] v = "CENTER" -> "center"
                   [] v = "MAX" -> "flex-end" [] v = "SPACE_BETWEEN" -> "space-between"
                   [] OTHER -> "flex-start"
AlignMap(v) == CASE v = "MIN" -> "flex-start" [] v = "CENTER" -> "center"
                 [] v = "MAX" -> "flex-end" [] OTHER -> "flex-start"

\* the geometry, fill, radius, stroke and opacity part of nodeToStyles
BoxStyles(node) ==
  LET s1 == PutIf(Has(node, "x"), <<>>, "left", <<"num", node.x>>)
      s2 == PutIf(Has(node, "y"), s1, "top", <<"num", node.y>>)
      s3 == PutIf(Has(node, "width"), s2, "width", <<"num", node.width>>)
      s4 == PutIf(Has(node, "height"), s3, "height", <<"num", node.height>>)
      bg == IF Has(node, "fills") THEN fillToBackgroundColor(node.fills) ELSE <<>>
      s5 == PutIf(bg # <<>>, s4, "backgroundColor", bg[1])
      s6 == PutIf(Has(node, "cornerRadius"), s5, "borderRadius", <<"num", node.cornerRadius>>)
      hasStroke == Has(node, "strokes") /\ Len(node.strokes) > 0
                   /\ Has(node.strokes[1], "color")
      s7 == IF hasStroke
            THEN Put(Put(Put(s6, "borderColor", colorToString(node.strokes[1].color)),
                         "borderWidth", <<"num", 1>>), "borderStyle", <<"str", "solid">>)
            ELSE s6
  IN PutIf(Has(node, "opacity") /\ ~RatIsOne(node.opacity), s7, "opacity", RatVal(node.opacity))

\* the auto-layout part of nodeToStyles; layoutMode is a non-empty string when present
LayoutStyles(node, s0) ==
  IF ~Has(node, "layoutMode") THEN s0
  ELSE
  LET s1 == IF node.layoutMode = "HORIZONTAL" THEN Put(s0, "flexDirection", <<"str", "row">>)
            ELSE IF node.layoutMode = "VERTICAL" THEN Put(s0, "flexDirection", <<"str", "column">>)
            ELSE s0
      s2 == PutIf(Has(node, "paddingLeft"), s1, "paddingLeft", <<"num", node.paddingLeft>>)
      s3 == PutIf(Has(node, "paddingRight"), s2, "paddingRight", <<"num", node.paddingRight>>)
      s4 == PutIf(Has(node, "paddingTop"), s3, "paddingTop", <<"num", node.paddingTop>>)
      s5 == PutIf(Has(node, "paddingBottom"), s4, "paddingBottom", <<"num", node.paddingBottom>>)
      s6 == PutIf(Has(node, "itemSpacing"), s5, "itemSpacing", <<"num", node.itemSpacing>>)
      s7 == PutIf(Has(node, "primaryAxisAlignItems"), s6, "justifyContent",
                  <<"str", JustifyMap(node.primaryAxisAlignItems)>>)
  IN PutIf(Has(node, "counterAxisAlignItems"), s7, "alignItems",
           <<"str", AlignMap(node.counterAxisAlignItems)>>)

\* the drop-shadow part of nodeToStyles
IsDropShadow(e) == e.type = "DROP_SHADOW" /\ NotHidden(e)
ShadowStyles(node, s0) ==
  IF ~(Has(node, "effects") /\ \E i \in DOMAIN node.effects : IsDropShadow(node.effects[i]))
  THEN s0
  ELSE
  LET j == CHOOSE i \in DOMAIN node.effects :
              IsDropShadow(node.effects[i]) /\ \A h \in 1..(i - 1) : ~IsDropShadow(node.effects[h])
      e == node.effects[j]
      s1 == PutIf(Has(e, "color"), s0, "shadowColor",
                  IF Has(e, "color") THEN colorToString(e.color) ELSE <<>>)
      s2 == PutIf(Has(e, "offset"), s1, "shadowOffset",
                  IF Has(e, "offset") THEN <<"obj", e.offset.x, e.offset.y>> ELSE <<>>)
      s3 == PutIf(Has(e, "radius"), s2, "shadowRadius",
                  IF Has(e, "radius") THEN <<"num", e.radius>> ELSE <<>>)
      \* shadowEffect.color?.a || 0.3
      op == IF Has(e, "color") /\ Has(e.color, "a") /\ ~RatIsZero(e.color.a)
            THEN RatVal(e.color.a) ELSE <<"rat", 3, 10>>
      s4 == Put(s3, "shadowOpacity", op)
      \* shadowEffect.radius || 3
      el == IF Has(e, "radius") /\ e.radius # 0 THEN e.radius ELSE 3
  IN Put(s4, "elevation", <<"num", el>>)

\* StyleParser.nodeToStyles, for nodes that carry no text style block
nodeToStyles(node) == ShadowStyles(node, LayoutStyles(node, BoxStyles(node)))

\* the numeric value v, as optimizeStyles compares it (=== 1, === 0)
IsNum(styles, key, n) == HasKey(styles, key) /\ Get(styles, key) = <<"num", n>>
DropDefault(styles, key, n) == IF IsNum(styles, key, n) THEN Del(styles, key) ELSE styles
\* variant: a borderRadius of 0 is kept
optimizeStyles_KeepsZeroRadius(styles) ==
  DropDefault(DropDefault(DropDefault(DropDefault(DropDefault(
    styles, "opacity", 1), "borderWidth", 0),
    "padding", 0), "margin", 0), "flex", 0)
optimizeStyles(styles) ==
  DropDefault(DropDefault(DropDefault(DropDefault(DropDefault(DropDefault(
    styles, "opacity", 1), "borderWidth", 0), "borderRadius", 0),
    "padding", 0), "margin", 0), "flex", 0)


(***************************************************************************)
(* ComponentParser.analyzeComponent and generatePropsInterface             *)
(***************************************************************************)
\* haystack.includes(needle)
Includes(hay, needle) ==
  \E i \in 1..(Len(hay) - Len(needle) + 1) :
     \A j \in 1..Len(needle) : hay[i + j - 1] = needle[j]
InteractiveWords == { <<"b","u","t","t","o","n">>, <<"i","n","p","u","t">>,
                      <<"f","i","e","l","d">> }
LooksInteractive(n) == \E w \in InteractiveWords : Includes(ToLowerCase(n.name), w)

\* analyzeNodeRecursively: the flags set by visiting n and, below it, the
\* children that shouldRenderNode accepts
RECURSIVE analyzeNodeRecursively(_)
analyzeNodeRecursively(n) ==
  LET kids == Children(n)
      sub == [i \in DOMAIN kids |->
                IF shouldRenderNode(kids[i]) THEN analyzeNodeRecursively(kids[i])
                ELSE [hasText |-> FALSE, hasImages |-> FALSE, hasInteractiveElements |-> FALSE]]
  IN [hasText |-> n.type = "TEXT" \/ \E i \in DOMAIN sub : sub[i].hasText,
      hasImages |-> shouldRenderAsImage(n) \/ \E i \in DOMAIN sub : sub[i].hasImages,
      hasInteractiveElements |->
         LooksInteractive(n) \/ \E i \in DOMAIN sub : sub[i].hasInteractiveElements]

\* variant: the root's children are visited whether or not they render
analyzeComponent_Unfiltered(node) ==
  LET kids == Children(node)
      sub == [i \in DOMAIN kids |-> analyzeNodeRecursively(kids[i])]
      hasText == \E i \in DOMAIN sub : sub[i].hasText
      hasImages == \E i \in DOMAIN sub : sub[i].hasImages
      hasInteractive == \E i \in DOMAIN sub : sub[i].hasInteractiveElements
      childCount == Len(SelectSeq(kids, shouldRenderNode))
      positioned == \E i \in DOMAIN kids : Has(kids[i], "x") /\ Has(kids[i], "y")
  IN [componentType |-> getComponentType(node),
      hasText |-> hasText,
      hasImages |-> hasImages,
      hasInteractiveElements |-> hasInteractive,
      childCount |-> childCount,
      layoutType |-> IF Has(node, "layoutMode") THEN "flex"
                     ELSE IF childCount > 1 /\ positioned /\ childCount > 3 THEN "mixed"
                     ELSE "absolute",
      suggestedProps |->
         (IF hasText THEN <<"title", "subtitle", "description">> ELSE <<>>)
         \o (IF hasInteractive THEN <<"onPress", "onLongPress", "disabled">> ELSE <<>>)
         \o (IF hasImages THEN <<"imageSource", "imageStyle">> ELSE <<>>)]
analyzeComponent(node) ==
  LET kids == Children(node)
      rendered == SelectSeq(kids, shouldRenderNode)
      sub == [i \in DOMAIN rendered |-> analyzeNodeRecursively(rendered[i])]
      hasText == \E i \in DOMAIN sub : sub[i].hasText
      hasImages == \E i \in DOMAIN sub : sub[i].hasImages
      hasInteractive == \E i \in DOMAIN sub : sub[i].hasInteractiveElements
      childCount == Len(rendered)
      positioned == \E i \in DOMAIN kids : Has(kids[i], "x") /\ Has(kids[i], "y")
  IN [componentType |-> getComponentType(node),
      hasText |-> hasText,
      hasImages |-> hasImages,
      hasInteractiveElements |-> hasInteractive,
      childCount |-> childCount,
      layoutType |-> IF Has(node, "layoutMode") THEN "flex"
                     ELSE IF childCount > 1 /\ positioned /\ childCount > 3 THEN "mixed"
                     ELSE "absolute",
      suggestedProps |->
         (IF hasText THEN <<"title", "subtitle", "description">> ELSE <<>>)
         \o (IF hasInteractive THEN <<"onPress", "onLongPress", "disabled">> ELSE <<>>)
         \o (IF hasImages THEN <<"imageSource", "imageStyle">> ELSE <<>>)]

PropType(prop) ==
  CASE prop \in {"onPress", "onLongPress"} -> "() => void"
    [] prop = "disabled" -> "boolean"
    [] prop \in {"imageSource", "imageStyle"} -> "any"
    [] OTHER -> "string"
\* the interface text, as its name and its property lines
generatePropsInterface(componentName, analysis) ==
  [interface |-> componentName \o <<"P","r","o","p","s">>,
   props |-> [i \in DOMAIN analysis.suggestedProps |->
                 <<analysis.suggestedProps[i], PropType(analysis.suggestedProps[i])>>]
             \o << <<"style", "ViewStyle">> >>]

\* validateComponent: every finding is pushed to warnings, none to errors
validateComponent(node) ==
  LET warnUnknown == node.type \notin KnownTypes
      warnDims == ~Has(node, "width") \/ ~Has(node, "height")
      warnInvisible == ~NotHidden(node)
  IN [isValid |-> TRUE,
      errors |-> <<>>,
      warnings |-> (IF warnUnknown THEN <<"unknown type">> ELSE <<>>)
                   \o (IF warnDims THEN <<"undefined dimensions">> ELSE <<>>)
                   \o (IF warnInvisible THEN <<"invisible">> ELSE <<>>)]

(***************************************************************************)
(* ReactNativeGenerator: style registry                                    *)
(* The registry (generatedStyles, a Map) is a sequence of [name, styles]   *)
(* entries in insertion order.                                             *)
(***************************************************************************)
RegHas(reg, name) == \E i \in DOMAIN reg : reg[i].name = name
RegGet(reg, name) == reg[CHOOSE i \in DOMAIN reg : reg[i].name = name].styles
RegNames(reg) == [i \in DOMAIN reg |-> reg[i].name]
\* Map.set: an existing key keeps its position and takes the new value
RegSet(reg, name, styles) ==
  IF RegHas(reg, name)
  THEN [i \in DOMAIN reg |->
          IF reg[i].name = name THEN [name |-> name, styles |-> styles] ELSE reg[i]]
  ELSE Append(reg, [name |-> name, styles |-> styles])
\* variant: the registry is left as it was
RegClear_Noop(reg) == reg
\* variant: the oldest entry survives
RegClear_KeepsOldest(reg) == IF reg = <<>> THEN <<>> ELSE <<reg[1]>>
\* Map.clear
RegClear(reg) == <<>>

\* while (generatedStyles.has(styleName)) { styleName = base + counter; counter++ }
RECURSIVE UniqueFrom(_, _, _, _)
UniqueFrom(reg, baseStyleName, styleName, counter) ==
  IF RegHas(reg, styleName)
  THEN UniqueFrom(reg, baseStyleName, baseStyleName \o NumToString(counter), counter + 1)
  ELSE styleName
\* variant: the base name is used without looking it up in the registry
UniqueStyleName_Unchecked(reg, baseStyleName) == baseStyleName
UniqueStyleName(reg, baseStyleName) == UniqueFrom(reg, baseStyleName, baseStyleName, 1)

\* generateStyleForNode up to its optimizeStyles call
StyleBeforeOptimize(node, isRoot) ==
  LET s0 == nodeToStyles(node)
      s1 == IF isRoot
            THEN Del(Del(Put(s0, "alignSelf", <<"str", "stretch">>), "left"), "top")
            ELSE IF Has(node, "layoutMode") THEN Del(Del(s0, "left"), "top")
            ELSE s0
      \* node.layoutMode && styleProps.itemSpacing: a spacing of 0 is falsy
      spaced == Has(node, "layoutMode") /\ HasKey(s1, "itemSpacing")
                /\ Get(s1, "itemSpacing") # <<"num", 0>>
  IN IF spaced
     THEN Put(Del(s1, "itemSpacing"),
              IF node.layoutMode = "HORIZONTAL" THEN "marginRight" ELSE "marginBottom",
              Get(s1, "itemSpacing"))
     ELSE s1
\* variant: the root is stretched but keeps its absolute position
StyleForNode_RootKeepsPosition(node, isRoot) ==
  optimizeStyles(IF isRoot THEN Put(nodeToStyles(node), "alignSelf", <<"str", "stretch">>)
                 ELSE IF Has(node, "layoutMode")
                 THEN Del(Del(nodeToStyles(node), "left"), "top")
                 ELSE nodeToStyles(node))
\* the style mapping generateStyleForNode stores for a node
StyleForNode(node, isRoot) == optimizeStyles(StyleBeforeOptimize(node, isRoot))

\* generateStyleForNode: the chosen name and the registry after the set
generateStyleForNode(reg, node, isRoot) ==
  LET baseStyleName == IF isRoot THEN ContainerStr ELSE generateStyleName(node.name)
      styleName == UniqueStyleName(reg, baseStyleName)
  IN [styleName |-> styleName,
      reg |-> RegSet(reg, styleName, StyleForNode(node, isRoot))]


(***************************************************************************)
(* ReactNativeGenerator: markup emitter                                    *)
(* Markup is a sequence of lines [ind, kind, tag, ref, body]; joining with *)
(* '\n' is concatenation, and a markup string trims to '' exactly when it  *)
(* has no line.  ind counts the leading spaces.  The emitter returns the   *)
(* markup, the registry after its generateStyleForNode calls, and trace:   *)
(* for each such call, in call order, the position of the node in the tree *)
(* (its path of child indexes) and the style name it was given.            *)
(***************************************************************************)
Line(ind, kind, tag, ref, body) ==
  [ind |-> ind, kind |-> kind, tag |-> tag, ref |-> ref, body |-> body]

\* variant: every element refers to the root's entry
StyleReference_AlwaysContainer(opts, reg, styleName) ==
  IF opts.useStyleSheet THEN <<"styles", ContainerStr>>
  ELSE <<"inline", RegGet(reg, styleName)>>
\* options.useStyleSheet ? `styles.${styleName}` : JSON.stringify(generatedStyles.get(styleName))
StyleReference(opts, reg, styleName) ==
  IF opts.useStyleSheet THEN <<"styles", styleName>>
  ELSE <<"inline", RegGet(reg, styleName)>>

\* variant: the open/close form is used whatever childrenJSX holds
ContainerJSX_AlwaysPair(indent, componentType, styleReference, childrenJSX) ==
  << Line(indent, "open", componentType, styleReference, <<>>) >>
  \o childrenJSX
  \o << Line(indent, "close", componentType, <<>>, <<>>) >>
\* the last statement of generateNodeJSX: open/children/close, or self-closing
\* when childrenJSX.trim() is empty
ContainerJSX(indent, componentType, styleReference, childrenJSX) ==
  IF childrenJSX # <<>>
  THEN << Line(indent, "open", componentType, styleReference, <<>>) >>
       \o childrenJSX
       \o << Line(indent, "close", componentType, <<>>, <<>>) >>
  ELSE << Line(indent, "self", componentType, styleReference, <<>>) >>

NoMarkup(reg) == [jsx |-> <<>>, reg |-> reg, trace |-> <<>>]
\* variant: the children's markup is joined last child first
JoinEmitted_LastFirst(first, rest) ==
  [jsx |-> rest.jsx \o first.jsx, reg |-> rest.reg, trace |-> first.trace \o rest.trace]
\* jsx strings joined with '\n', registry and trace threaded through
JoinEmitted(first, rest) ==
  [jsx |-> first.jsx \o rest.jsx, reg |-> rest.reg, trace |-> first.trace \o rest.trace]

RECURSIVE generateNodeJSX(_, _, _, _, _, _)
RECURSIVE ChildrenFrom(_, _, _, _, _, _)
RECURSIVE ChildrenAfter(_, _, _, _, _, _)
RECURSIVE generateChildrenJSX(_, _, _, _, _)

\* the filter/map/filter/join chain of generateChildrenJSX, from child i on
ChildrenFrom(opts, reg, kids, i, depth, path) ==
  IF i > Len(kids) THEN NoMarkup(reg)
  ELSE IF ~shouldRenderNode(kids[i])
       THEN ChildrenFrom(opts, reg, kids, i + 1, depth, path)
       ELSE ChildrenAfter(opts, generateNodeJSX(opts, reg, kids[i], depth, FALSE, Append(path, i)),
                          kids, i, depth, path)

\* child i was emitted as first; the later children see the registry it left
ChildrenAfter(opts, first, kids, i, depth, path) ==
  JoinEmitted(first, ChildrenFrom(opts, first.reg, kids, i + 1, depth, path))

generateChildrenJSX(opts, reg, node, depth, path) ==
  IF ~Has(node, "children") \/ Len(node.children) = 0
  THEN NoMarkup(reg)
  ELSE ChildrenFrom(opts, reg, node.children, 1, depth, path)

\* generateNodeJSX after its children were generated: the root's own style is
\* read from the registry the children left
EmitContainer(opts, st, kids, node, indent, isRoot, path) ==
  [jsx |-> ContainerJSX(indent, getComponentType(node),
                        IF isRoot /\ opts.includeTypes
                        THEN <<"array", StyleReference(opts, kids.reg, st.styleName), "style">>
                        ELSE StyleReference(opts, kids.reg, st.styleName),
                        kids.jsx),
   reg |-> kids.reg,
   trace |-> << [path |-> path, styleName |-> st.styleName] >> \o kids.trace]

\* generateNodeJSX after generateStyleForNode returned st
EmitStyled(opts, st, node, depth, isRoot, path) ==
  IF node.type = "TEXT"
  THEN [jsx |-> << Line(4 * (depth + 1), "open", "Text",
                        StyleReference(opts, st.reg, st.styleName), <<>>),
                   Line(4 * (depth + 1) + 2, "text", "", <<>>, extractTextContent(node)),
                   Line(4 * (depth + 1), "close", "Text", <<>>, <<>>) >>,
        reg |-> st.reg,
        trace |-> << [path |-> path, styleName |-> st.styleName] >>]
  ELSE IF shouldRenderAsImage(node)
  THEN [jsx |-> << Line(4 * (depth + 1), "open", "View",
                        StyleReference(opts, st.reg, st.styleName), <<>>),
                   Line(4 * (depth + 1) + 2, "comment", "", <<>>, <<>>),
                   Line(4 * (depth + 1), "close", "View", <<>>, <<>>) >>,
        reg |-> st.reg,
        trace |-> << [path |-> path, styleName |-> st.styleName] >>]
  ELSE EmitContainer(opts, st, generateChildrenJSX(opts, st.reg, node, depth + 1, path),
                     node, 4 * (depth + 1), isRoot, path)

generateNodeJSX(opts, reg, node, depth, isRoot, path) ==
  IF ~shouldRenderNode(node) THEN NoMarkup(reg)
  ELSE EmitStyled(opts, generateStyleForNode(reg, node, isRoot), node, depth, isRoot, path)

\* generateStyles: the style block as its entries in Map order; <<>> is ''
generateStyles(opts, reg) ==
  IF Len(reg) = 0 THEN <<>>
  ELSE IF ~opts.useStyleSheet THEN <<>>
  ELSE reg

\* Array.from(rnComponents).sort(), over the names generateImports can add
SortedRN == <<"StyleSheet", "Text", "TextStyle", "View", "ViewStyle">>
generateImports(opts, analysis) ==
  LET rn == {"View"}
            \cup (IF analysis.hasText THEN {"Text"} ELSE {})
            \cup (IF opts.useStyleSheet THEN {"StyleSheet"} ELSE {})
            \cup (IF opts.includeTypes THEN {"ViewStyle"} ELSE {})
            \cup (IF opts.includeTypes /\ analysis.hasText THEN {"TextStyle"} ELSE {})
  IN << <<"React">>, SelectSeq(SortedRN, LAMBDA c : c \in rn) >>

\* generateComponentJSX: the declaration header around the root's markup
ComponentText(opts, componentName, body) ==
  [component |-> [name |-> componentName, propsType |-> opts.includeTypes, body |-> body.jsx],
   reg |-> body.reg,
   trace |-> body.trace]
generateComponentJSX(opts, reg, node, componentName) ==
  ComponentText(opts, componentName, generateNodeJSX(opts, reg, node, 0, TRUE, <<>>))

(***************************************************************************)
(* ReactNativeGenerator.generateComponent                                  *)
(* componentName <<>> stands for an omitted (or empty, equally falsy) name *)
(***************************************************************************)
\* the ComponentSpec assembled once analysis and component JSX are known
AssembleSpec(opts, finalComponentName, analysis, jsx) ==
  [ok |-> TRUE, reg |-> jsx.reg, trace |-> jsx.trace,
   spec |-> [name |-> finalComponentName,
             imports |-> generateImports(opts, analysis),
             interfaces |-> IF opts.includeTypes
                            THEN <<generatePropsInterface(finalComponentName, analysis)>>
                            ELSE <<>>,
             component |-> jsx.component,
             styles |-> generateStyles(opts, jsx.reg),
             exports |-> <<finalComponentName>>]]

\* n.name.toLowerCase() in analyzeNodeRecursively throws a TypeError when the
\* node carries no name; the walk goes on below n through the children that
\* shouldRenderNode accepts
RECURSIVE AnalyzeNodeThrows(_)
AnalyzeNodeThrows(n) ==
  \/ ~Has(n, "name")
  \/ \E i \in DOMAIN Children(n) :
        shouldRenderNode(n.children[i]) /\ AnalyzeNodeThrows(n.children[i])
\* analyzeComponent visits the root's children, not the root
AnalyzeThrows(node) ==
  \E i \in DOMAIN Children(node) :
     shouldRenderNode(node.children[i]) /\ AnalyzeNodeThrows(node.children[i])

\* the catch block: an error that is no GenerationError is wrapped in one that
\* carries the componentName argument (<<>> when the caller gave none)
Caught(cleared, node, componentName) ==
  [ok |-> FALSE, reg |-> cleared, trace |-> <<>>,
   error |-> [type |-> "GenerationError", componentName |-> componentName]]

\* the body of generateComponent after finalComponentName was computed
GenerateNamed(opts, cleared, node, componentName, finalComponentName) ==
  IF AnalyzeThrows(node) THEN Caught(cleared, node, componentName)
  ELSE IF ~validateComponent(node).isValid
  THEN [ok |-> FALSE, reg |-> cleared, trace |-> <<>>,
        error |-> [type |-> "GenerationError", componentName |-> finalComponentName]]
  ELSE AssembleSpec(opts, finalComponentName, analyzeComponent(node),
                    generateComponentJSX(opts, cleared, node, finalComponentName))

\* generateComponentName(node.name) throws a TypeError when it is reached
\* with a node that carries no name
generateComponent(opts, reg, node, componentName) ==
  IF componentName = <<>> /\ ~Has(node, "name")
  THEN Caught(RegClear(reg), node, componentName)
  ELSE GenerateNamed(opts, RegClear(reg), node, componentName,
                     IF componentName # <<>> THEN componentName
                     ELSE generateComponentName(node.name))

(***************************************************************************)
(* Input nodes                                                             *)
(***************************************************************************)
Half == [n |-> 1, d |-> 2]
Red == [r |-> One, g |-> [n |-> 0, d |-> 1], b |-> Half]
SolidFill == [type |-> "SOLID", color |-> Red]
HiddenFill == [type |-> "SOLID", color |-> Red, visible |-> FALSE]
GradientFill == [type |-> "GRADIENT_LINEAR"]
Stroke == [type |-> "SOLID", color |-> Red]
Blur == [type |-> "LAYER_BLUR"]
Shadow == [type |-> "DROP_SHADOW", radius |-> 4]
Invisible == [visible |-> FALSE]
NameN == <<"n">>

\* what a node carries besides its name and its children
FrameEmpty == [type |-> "FRAME"]
FrameFill == [type |-> "FRAME", fills |-> <<SolidFill>>, x |-> 2, y |-> 3]
TextHi == [type |-> "TEXT", characters |-> <<"H","i">>]
TextBlank == [type |-> "TEXT", characters |-> <<" ">>]
VectorEmpty == [type |-> "VECTOR"]
VectorFill == [type |-> "VECTOR", fills |-> <<SolidFill>>]
InnerBodies == {FrameEmpty, FrameFill, VectorEmpty,
                FrameEmpty @@ Invisible, FrameFill @@ Invisible}
LeafBodies == {FrameEmpty, FrameFill, FrameFill @@ Invisible, TextHi, TextBlank,
               TextHi @@ Invisible, VectorEmpty, VectorFill}
SmallLeafBodies == {FrameEmpty, FrameFill, FrameFill @@ Invisible, TextHi}
ContentBodies ==
  {[type |-> "FRAME", fills |-> <<HiddenFill>>],
   [type |-> "FRAME", fills |-> <<HiddenFill, GradientFill>>],
   [type |-> "RECTANGLE", strokes |-> <<Stroke>>],
   [type |-> "RECTANGLE", strokes |-> <<Stroke @@ Invisible>>],
   [type |-> "ELLIPSE", effects |-> <<Blur>>, cornerRadius |-> 0],
   [type |-> "ELLIPSE", effects |-> <<Blur @@ Invisible, Shadow>>, opacity |-> Half],
   [type |-> "STAR", effects |-> <<Shadow @@ Invisible>>, visible |-> TRUE],
   [type |-> "SLICE", fills |-> <<>>, children |-> <<>>],
   [type |-> "FRAME", fills |-> <<SolidFill>>, layoutMode |-> "HORIZONTAL",
    itemSpacing |-> 8, x |-> 1, y |-> 1, width |-> 0, height |-> 5]}

Named(name, body) == [name |-> name] @@ body
WithKids(node, kids) == node @@ [children |-> kids]

\* trees that vary visibility, content and type along a path and across siblings
RenderTrees ==
  LET n(b)   == Named(NameN, b)
      leaves == {n(b) : b \in LeafBodies \cup ContentBodies}
      one    == {WithKids(n(p), <<n(c)>>) : p \in InnerBodies, c \in LeafBodies}
      chain  == {WithKids(n(p), <<WithKids(n(q), <<n(c)>>)>>) :
                   p \in {FrameEmpty, FrameFill, VectorEmpty},
                   q \in InnerBodies,
                   c \in {FrameFill, FrameFill @@ Invisible, TextHi}}
      hidden == {WithKids(n(FrameFill @@ Invisible), <<WithKids(n(FrameFill), <<n(TextHi)>>)>>)}
      two    == {WithKids(n(p), <<c1, c2>>) :
                   p \in {FrameEmpty, FrameFill},
                   c1 \in {n(FrameFill), n(FrameFill @@ Invisible),
                           WithKids(n(VectorEmpty), <<n(TextHi)>>)},
                   c2 \in {n(FrameEmpty), n(FrameFill), n(TextHi)}}
      images == {WithKids(n([type |-> t, fills |-> <<SolidFill>>]), <<n(TextHi)>>) :
                   t \in {"BOOLEAN_OPERATION", "STAR", "POLYGON"}}
      nested == {WithKids(n(FrameEmpty), <<WithKids(n(c1), <<n(TextHi), n(FrameFill)>>), n(c2)>>) :
                   c1 \in {FrameFill, FrameFill @@ Invisible}, c2 \in {FrameFill, TextHi}}
  IN leaves \cup one \cup chain \cup hidden \cup two \cup images \cup nested

\* trees whose rendered children take their names from NodeNames
MaxSiblings == 3
NodeNames == { <<"a">>, <<"A","-">>, <<"a","1">>, <<>> }
RECURSIVE SiblingLists(_)
SiblingLists(k) ==
  IF k = 0 THEN { <<>> }
  ELSE LET shorter == SiblingLists(k - 1)
       IN shorter \cup {Append(l, Named(nm, FrameFill)) :
                           l \in {m \in shorter : Len(m) = k - 1}, nm \in NodeNames}
NameTrees ==
  {WithKids(Named(<<"R","o","o","t">>, FrameEmpty), kids) :
      kids \in SiblingLists(MaxSiblings) \ { <<>> }}

\* trees in which a node arrives without a name
ErrorTrees ==
  LET roots == {Named(NameN, FrameFill), FrameFill, Named(NameN, FrameFill @@ Invisible)}
      kids  == {FrameFill, Named(NameN, FrameFill), FrameFill @@ Invisible,
                WithKids(Named(NameN, VectorFill), <<TextHi>>)}
  IN {FrameFill, TextHi, Named(NameN, FrameFill), Named(NameN, TextHi)}
     \cup {WithKids(r, <<k>>) : r \in roots, k \in kids}

\* fills, auto-layout blocks and geometry for the style mapper
Odd == [r |-> [n |-> 1, d |-> 510], g |-> [n |-> 1, d |-> 3], b |-> One, a |-> One]
SolidAlpha == [type |-> "SOLID", color |-> Red @@ [a |-> Half]]
SolidOpacity == [type |-> "SOLID", color |-> Red, opacity |-> Half]
SolidBoth == [type |-> "SOLID", color |-> Red @@ [a |-> Half], opacity |-> Half]
SolidClear == [type |-> "SOLID", color |-> Red, opacity |-> [n |-> 0, d |-> 1]]
SolidOdd == [type |-> "SOLID", color |-> Odd, visible |-> TRUE]
Fills == {SolidFill, HiddenFill, GradientFill, SolidAlpha, SolidOpacity, SolidBoth,
          SolidClear, SolidOdd}
FillLists ==
  { <<>> } \cup {<<f>> : f \in Fills}
  \cup {<<f, g>> : f \in {HiddenFill, GradientFill, SolidAlpha, SolidFill}, g \in Fills}
NoFields == <<>>
LayoutBlocks ==
  {NoFields,
   [layoutMode |-> "HORIZONTAL"],
   [layoutMode |-> "HORIZONTAL", itemSpacing |-> 8],
   [layoutMode |-> "VERTICAL", itemSpacing |-> 8, paddingLeft |-> 4],
   [layoutMode |-> "HORIZONTAL", itemSpacing |-> 0],
   [layoutMode |-> "VERTICAL", itemSpacing |-> 0]}
Geometries ==
  {NoFields,
   [x |-> 2, y |-> 3],
   [x |-> 0, y |-> 0, width |-> 0, height |-> 5],
   [x |-> 10, y |-> 20, width |-> 100, height |-> 50, cornerRadius |-> 8]}
Blue == [r |-> [n |-> 0, d |-> 1], g |-> [n |-> 0, d |-> 1], b |-> One]
StrokeLists ==
  { <<>>, <<Stroke>>, <<Stroke @@ Invisible>>,
    <<[type |-> "GRADIENT_LINEAR"]>>,
    <<[type |-> "GRADIENT_LINEAR", color |-> Blue]>>,
    <<Stroke @@ Invisible, [type |-> "SOLID", color |-> Blue]>>,
    <<[type |-> "GRADIENT_LINEAR"], Stroke>>,
    <<Stroke, [type |-> "SOLID", color |-> Blue]>> }
\* a frame that renders whatever its fills are
StyledFrame(fields) == [type |-> "FRAME", effects |-> <<Blur>>] @@ fields
StyleTrees ==
  LET root(fields) == Named(<<"R","o","o","t">>, StyledFrame(fields))
      kid(fields)  == Named(NameN, StyledFrame(fields))
  IN {WithKids(root([x |-> 2, y |-> 3]), <<kid([fills |-> fs] @@ [x |-> 2, y |-> 3])>>) :
         fs \in FillLists}
     \cup {WithKids(root(rl @@ [x |-> 2, y |-> 3]), <<kid(fs @@ kl @@ kg)>>) :
              rl \in {NoFields, [layoutMode |-> "HORIZONTAL", itemSpacing |-> 8],
                      [layoutMode |-> "VERTICAL", itemSpacing |-> 0]},
              kl \in LayoutBlocks, kg \in Geometries,
              fs \in {NoFields, [fills |-> <<SolidFill>>]}}
     \cup {WithKids(root([x |-> 2, y |-> 3]), <<kid(fs @@ [strokes |-> ss])>>) :
              ss \in StrokeLists, fs \in {NoFields, [fills |-> <<SolidFill>>]}}

\* roots whose component has an empty body, a text, children, an image
FileTrees ==
  { Named(NameN, FrameEmpty),
    Named(NameN, TextHi),
    Named(NameN, VectorFill),
    WithKids(Named(NameN, FrameFill), <<Named(NameN, TextHi), Named(NameN, FrameFill)>>) }

\* trees for the analyzer: texts with and without content, a text below an
\* image node and below a hidden frame, interactive names, text and image roots
AnalysisKids ==
  { Named(NameN, TextHi),
    Named(NameN, TextBlank),
    Named(NameN, TextBlank @@ [fills |-> <<SolidFill>>]),
    Named(NameN, FrameFill),
    Named(<<"O","k","B","u","t","t","o","n">>, FrameFill),
    WithKids(Named(NameN, VectorFill), <<Named(NameN, TextHi)>>),
    WithKids(Named(NameN, FrameFill @@ Invisible), <<Named(NameN, TextHi)>>),
    WithKids(Named(NameN, FrameEmpty), <<Named(<<"i","n","p","u","t">>, VectorFill)>>) }
AnalysisTrees ==
  { Named(NameN, TextHi), Named(NameN, VectorFill),
    Named(<<"B","u","t","t","o","n">>, FrameFill) }
  \cup {WithKids(Named(NameN, FrameEmpty), <<k>>) : k \in AnalysisKids}
  \cup {WithKids(Named(NameN, FrameEmpty), <<k, m>>) : k, m \in AnalysisKids}

InputTrees(fam) ==
  CASE fam = "names" -> NameTrees
    [] fam = "errors" -> ErrorTrees
    [] fam = "styles" -> StyleTrees
    [] fam = "file" -> FileTrees
    [] fam = "analysis" -> AnalysisTrees
    [] OTHER -> RenderTrees
\* the componentName argument: omitted, or given
ComponentNames == { <<>>, <<"F","o","o">> }
InputNames(fam) == IF fam \in {"names", "styles", "analysis"} THEN { <<>> } ELSE ComponentNames
OptionSets == [includeTypes : BOOLEAN, useStyleSheet : BOOLEAN, formatCode : {TRUE}]
FileOptionSets == [includeTypes : BOOLEAN, useStyleSheet : BOOLEAN, formatCode : BOOLEAN]
\* bound on the generateFileContent calls followed per ComponentSpec
MaxFileCalls == 2

(***************************************************************************)
(* ReactNativeGenerator.generateFileContent                                *)
(* A text is the sequence of its lines (the pieces between '\n'); a piece  *)
(* that spans several lines without an empty one (a style entry) counts as *)
(* one line.  sec records the section a line was taken from.               *)
(***************************************************************************)
TextLine(sec, text) == [sec |-> sec, blank |-> FALSE, text |-> text]
EmptyLine(sec) == [sec |-> sec, blank |-> TRUE, text |-> <<>>]
\* the string ''
EmptyString == << EmptyLine("blank") >>

\* strings.join('\n')
RECURSIVE JoinLines(_)
JoinLines(strings) ==
  IF strings = <<>> THEN <<>> ELSE Head(strings) \o JoinLines(Tail(strings))

\* componentSpec.imports.join('\n')
ImportLines(spec) == [i \in DOMAIN spec.imports |-> TextLine("imports", spec.imports[i])]
\* `interface ${componentName}Props {\n${propStrings.join('\n')}\n}`
InterfaceText(iface) ==
  << TextLine("interface", iface.interface) >>
  \o [i \in DOMAIN iface.props |-> TextLine("interface", iface.props[i])]
  \o << TextLine("interface", <<"}">>) >>
\* componentSpec.interfaces.join('\n\n'), of a non-empty list
RECURSIVE InterfaceLines(_)
InterfaceLines(interfaces) ==
  IF Len(interfaces) = 1 THEN InterfaceText(interfaces[1])
  ELSE InterfaceText(Head(interfaces)) \o << EmptyLine("interface") >>
       \o InterfaceLines(Tail(interfaces))
\* `const ${componentName}${propsType} = (${props}) => {\n  return (\n${componentBody}\n  );\n};`
ComponentLines(component) ==
  << TextLine("component", [name |-> component.name, propsType |-> component.propsType]),
     TextLine("component", <<"return (">>) >>
  \o (IF component.body = <<>> THEN << EmptyLine("component") >>
      ELSE [i \in DOMAIN component.body |-> TextLine("component", component.body[i])])
  \o << TextLine("component", <<");">>), TextLine("component", <<"};">>) >>
\* `const styles = StyleSheet.create({\n${styleEntries}\n});`
StyleLines(styles) ==
  << TextLine("styles", <<"StyleSheet.create({">>) >>
  \o [i \in DOMAIN styles |-> TextLine("styles", styles[i])]
  \o << TextLine("styles", <<"});">>) >>
\* componentSpec.exports.join('\n')
ExportLines(spec) == [i \in DOMAIN spec.exports |-> TextLine("exports", spec.exports[i])]

\* .replace(/\n\n\n+/g, '\n\n') and .replace(/^\s*\n/gm, '\n'): of a run of
\* empty lines the first is kept
RECURSIVE CollapseEmptyLines(_)
CollapseEmptyLines(code) ==
  IF Len(code) < 2 THEN code
  ELSE IF code[1].blank /\ code[2].blank THEN CollapseEmptyLines(Tail(code))
  ELSE << Head(code) >> \o CollapseEmptyLines(Tail(code))
\* .trim(): the empty lines at both ends go
RECURSIVE TrimStart(_)
TrimStart(code) ==
  IF code # <<>> /\ Head(code).blank THEN TrimStart(Tail(code)) ELSE code
RECURSIVE TrimEnd(_)
TrimEnd(code) ==
  IF code # <<>> /\ code[Len(code)].blank THEN TrimEnd(SubSeq(code, 1, Len(code) - 1))
  ELSE code
\* formatCode: ... .trim() + '\n'
formatCode(code) == TrimEnd(TrimStart(CollapseEmptyLines(code))) \o << EmptyLine("end") >>

\* the sections array of generateFileContent
Sections(spec) ==
  << ImportLines(spec), EmptyString >>
  \o (IF Len(spec.interfaces) > 0 THEN << InterfaceLines(spec.interfaces), EmptyString >>
      ELSE <<>>)
  \o << ComponentLines(spec.component), EmptyString >>
  \o (IF spec.styles # <<>> THEN << StyleLines(spec.styles), EmptyString >> ELSE <<>>)
  \o << ExportLines(spec) >>
\* sections.filter(section => section !== '').join('\n'), formatted on request
generateFileContent(opts, spec) ==
  IF opts.formatCode
  THEN formatCode(JoinLines(SelectSeq(Sections(spec), LAMBDA section : section # EmptyString)))
  ELSE JoinLines(SelectSeq(Sections(spec), LAMBDA section : section # EmptyString))

(***************************************************************************)
(* FigmaToReactNative.generateMultipleComponents: helpers                  *)
(***************************************************************************)
\* bound on the URL list, and on how far below 0 the loop index is followed
MaxUrls == 3
MaxUnderflow == 2
DefaultConcurrency == 3

\* options?.concurrency || 3, the option being <<"undefined">>, <<"NaN">> or <<"num", n>>
Concurrency(opt) ==
  IF opt[1] = "num" /\ opt[2] # 0 THEN opt[2] ELSE DefaultConcurrency

Max(a, b) == IF a > b THEN a ELSE b
Min(a, b) == IF a < b THEN a ELSE b
\* Array.prototype.slice(start, end) on an array of length len, as the
\* 1-based positions it returns
RelIndex(len, k) == IF k < 0 THEN Max(len + k, 0) ELSE Min(k, len)
SlicePositions(len, start, end) ==
  LET from == RelIndex(len, start)
      to   == RelIndex(len, end)
  IN [j \in 1..Max(to - from, 0) |-> from + j]

\* FigmaUtils.isValidFigmaUrl, a URL being [valid |-> whether parseUrl accepts it]
isValidFigmaUrl(url) == url.valid

InFlightStates == {"fetching", "mkdir", "writing"}
Settled(r) == r.state \in {"ok", "failed"}

\* variant: without the .catch, a failed run rejects its promise
batchPromise_NoCatch(r) ==
  IF r.state = "ok" THEN [state |-> "fulfilled", value |-> <<r.spec>>]
  ELSE IF r.state = "failed" THEN [state |-> "rejected", value |-> <<>>]
  ELSE [state |-> "pending", value |-> <<>>]
\* generateComponentFromUrl(url, ...).catch(error => null), as seen by Promise.all
batchPromise(r) ==
  IF r.state = "ok" THEN [state |-> "fulfilled", value |-> <<r.spec>>]
  ELSE IF r.state = "failed" THEN [state |-> "fulfilled", value |-> <<>>]
  ELSE [state |-> "pending", value |-> <<>>]

\* batchResults.filter(result => result !== null), in batch order
RECURSIVE NonNull(_, _)
NonNull(rs, positions) ==
  IF positions = <<>> THEN <<>>
  ELSE batchPromise(rs[Head(positions)]).value \o NonNull(rs, Tail(positions))

\* the nodes the Figma API returns
BatchTrees ==
  {Named(<<"L","o","g","i","n">>, FrameFill),
   WithKids(Named(<<"C","a","r","d">>, FrameEmpty),
            <<Named(<<"I","c","o","n">>, FrameFill), Named(<<"I","c","o","n">>, TextHi)>>)}
ConcurrencyOptions == { <<"undefined">>, <<"NaN">>, <<"num", 0>>, <<"num", 0 - 1>>,
                        <<"num", 1>>, <<"num", 2>> }
RECURSIVE UrlLists(_)
UrlLists(k) ==
  IF k = 0 THEN { <<>> }
  ELSE LET shorter == UrlLists(k - 1)
       IN shorter \cup {Append(l, [valid |-> v]) :
                           l \in {m \in shorter : Len(m) = k - 1}, v \in BOOLEAN}

(***************************************************************************)
(* FigmaMCPClient and FigmaMCPIntegration: helpers                         *)
(***************************************************************************)
\* bound on the requests one client sends
MaxRequests == 4

\* new FigmaMCPClient(url); eventSource tells whether the runtime defines
\* EventSource.  sseConnection is "none" (undefined) or the readyState of
\* the EventSource it holds
NewClient(eventSource) ==
  [eventSource |-> eventSource, sseConnection |-> "none", requestId |-> 1,
   pendingRequests |-> {}]

\* new FigmaMCPIntegration(options); op is the await its one caller stands
\* at and req the request awaited there; lastConn remembers which of a
\* successful connect(), a 'connected' event and a disconnect() came last
NewIntegration(useMCP, fallbackToAPI) ==
  [useMCP |-> useMCP, fallbackToAPI |-> fallbackToAPI, isConnected |-> FALSE,
   op |-> "idle", req |-> 0, lastConn |-> "none"]

\* the latest call of connect, generateFromSelection, getContext or
\* navigateToNode: whether isConnected held at entry, whether the call sent
\* an MCP request, whether it contacted the server, and what it returned
NoCall == [op |-> "none", connected |-> FALSE, sent |-> FALSE, contacted |-> FALSE,
           result |-> "none"]
CallReturned(op, connected, result) ==
  [op |-> op, connected |-> connected, sent |-> FALSE, contacted |-> FALSE,
   result |-> result]
CallAwaiting(op, connected, sent) ==
  [op |-> op, connected |-> connected, sent |-> sent, contacted |-> TRUE,
   result |-> "pending"]

\* a request as sendRequest leaves it: the POST in flight and, on the SSE
\* path, the 10-second timer armed; calls counts the invocations of the
\* promise's resolve and reject
NewRequest(id, via) ==
  [id |-> id, via |-> via, post |-> "inflight",
   timer |-> IF via = "sse" THEN "armed" ELSE "none",
   calls |-> 0, outcome |-> "pending"]

\* sendRequest up to its first await: this.requestId++, then the SSE path
\* when the EventSource is OPEN, else the plain HTTP request
sendRequest(client, reqs) ==
  LET id  == client.requestId
      via == IF client.sseConnection = "open" THEN "sse" ELSE "http"
  IN [client |-> [client EXCEPT !.requestId = id + 1,
                                !.pendingRequests =
                                  IF via = "sse" THEN @ \cup {id} ELSE @],
      requests |-> Append(reqs, NewRequest(id, via))]

\* resolve(...) or reject(...): the call is counted; a promise settles once
SettleRequest(r, how) ==
  [r EXCEPT !.calls = @ + 1, !.outcome = IF @ = "pending" THEN how ELSE @]

\* variant: the guard at the entry of the MCP-only methods is missing
GuardPasses_Always(int) == TRUE
\* if (!this.isConnected) return ...
GuardPasses(int) == int.isConnected

\* the methods of FigmaMCPIntegration that need the MCP connection, with
\* what each returns when it is missing and the await it stands at otherwise
GuardedMethods == {"generateFromSelection", "getContext", "navigateToNode"}
Refusal(method) == IF method = "navigateToNode" THEN "false" ELSE "null"
\* the requests a call of the method may still send
RequestsOf(method) == IF method \in {"connect", "generateFromSelection"} THEN 2 ELSE 1

(***************************************************************************)
(* State: one ReactNativeGenerator, its callers, and one batch call        *)
(***************************************************************************)
VARIABLES
  family,           \* which trees the direct callers pass in
  options,          \* this.options (the flags the generator reads)
  generatedStyles,  \* this.generatedStyles
  componentCounter, \* this.componentCounter
  lastNode,         \* the node of the latest generateComponent call
  lastName,         \* the componentName of the latest call
  lastResult,       \* what the latest call returned or threw
  lastTrace,        \* the generateStyleForNode calls of the latest call
  dirtyEntry,       \* whether the registry held entries when the latest call began
  fileContents,     \* what the generateFileContent calls on the latest ComponentSpec returned
  registryUsers,    \* the batch runs that called generateComponent on this generator
  bpc,              \* generateMultipleComponents: idle, loop, await, delay, done, rejected
  urls,             \* its urls argument
  batchOptions,     \* its options argument
  idx,              \* its loop variable i
  batch,            \* positions of the current batch in urls
  runs,             \* per URL, the state of its generateComponentFromUrl call
  results,          \* its results array
  delayed,          \* whether the inter-batch delay elapsed since the last batch settled
  mcpClient,        \* the FigmaMCPClient of one FigmaMCPIntegration
  requests,         \* the requests the client sent, in sending order
  integration,      \* the FigmaMCPIntegration
  lastCall          \* the latest call of a method of the integration

genVars == <<options, generatedStyles, componentCounter,
             lastNode, lastName, lastResult, lastTrace, dirtyEntry, fileContents>>
batchVars == <<registryUsers, bpc, urls, batchOptions, idx, batch, runs, results, delayed>>
mcpVars == <<mcpClient, requests, integration, lastCall>>
vars == <<family, genVars, batchVars, mcpVars>>

NoNode == [name |-> <<>>, type |-> "NONE", visible |-> FALSE]
NoResult == [ok |-> FALSE, none |-> TRUE]
\* a run: its state, the node it fetched, its componentSpec and the file
\* content it handed to writeFile
IdleRun == [state |-> "idle", spec |-> <<>>, node |-> NoNode, content |-> <<>>]
FailedRun == [state |-> "failed", spec |-> <<>>, node |-> NoNode, content |-> <<>>]

\* the flags FigmaToReactNative's constructor passes by default
DefaultOptions == [includeTypes |-> TRUE, useStyleSheet |-> TRUE, formatCode |-> TRUE]

\* new ReactNativeGenerator(options); no batch call yet
InitGenerator(fam, optionSets) ==
  /\ family = fam
  /\ options \in optionSets
  /\ generatedStyles = <<>>
  /\ componentCounter = 0
  /\ lastNode = NoNode
  /\ lastName = <<>>
  /\ lastResult = NoResult
  /\ lastTrace = <<>>
  /\ dirtyEntry = FALSE
  /\ fileContents = <<>>
  /\ registryUsers = {}
  /\ bpc = "idle"
  /\ urls = <<>>
  /\ batchOptions = [concurrency |-> <<"undefined">>, writeToFile |-> TRUE]
  /\ idx = 0
  /\ batch = <<>>
  /\ runs = <<>>
  /\ results = <<>>
  /\ delayed = FALSE
  /\ mcpClient \in {NewClient(e) : e \in IF fam = "mcp" THEN BOOLEAN ELSE {FALSE}}
  /\ requests = <<>>
  /\ integration \in {NewIntegration(u, f) : u, f \in IF fam = "mcp" THEN BOOLEAN ELSE {TRUE}}
  /\ lastCall = NoCall

Init == InitGenerator("render", OptionSets)
InitNames == InitGenerator("names", {DefaultOptions})
InitBatch == InitGenerator("batch", {DefaultOptions})
InitErrors == InitGenerator("errors", OptionSets)
InitStyles == InitGenerator("styles", {DefaultOptions})
InitFile == InitGenerator("file", FileOptionSets)
InitAnalysis == InitGenerator("analysis", {DefaultOptions})
InitLoop == InitGenerator("loop", {DefaultOptions})
InitMCP == InitGenerator("mcp", {DefaultOptions})

\* the generator's part of a generateComponent(node, componentName) call
CallGenerator(node, componentName) ==
  \E out \in {generateComponent(options, generatedStyles, node, componentName)} :
     /\ generatedStyles' = out.reg
     /\ componentCounter' = 0
     /\ lastNode' = node
     /\ lastName' = componentName
     /\ lastResult' = IF out.ok THEN [ok |-> TRUE, spec |-> out.spec]
                      ELSE [ok |-> FALSE, error |-> out.error]
     /\ lastTrace' = out.trace
     /\ dirtyEntry' = (generatedStyles # <<>>)
     /\ fileContents' = <<>>
     /\ UNCHANGED options

\* a caller runs generateComponent(node, componentName) to completion
GenerateComponent ==
  \E node \in InputTrees(family), componentName \in InputNames(family) :
     /\ CallGenerator(node, componentName)
     /\ UNCHANGED <<family, mcpVars, batchVars>>

\* a caller passes the latest ComponentSpec to generateFileContent
GenerateFileContent ==
  /\ lastNode # NoNode
  /\ lastResult.ok
  /\ Len(fileContents) < MaxFileCalls
  /\ fileContents' = Append(fileContents, generateFileContent(options, lastResult.spec))
  /\ UNCHANGED <<family, mcpVars, options, generatedStyles, componentCounter, lastNode, lastName,
                 lastResult, lastTrace, dirtyEntry, batchVars>>

(***************************************************************************)
(* generateMultipleComponents and the generateComponentFromUrl runs        *)
(***************************************************************************)
\* generateComponentFromUrl up to its first await
StartRun(url) ==
  IF ~isValidFigmaUrl(url) THEN FailedRun
  ELSE [IdleRun EXCEPT !.state = "fetching"]

\* i += concurrency.  Every index below 0 gives the same (empty) slice when
\* concurrency is negative, so an index below -MaxUnderflow is kept as
\* -MaxUnderflow
NextIndex(i, concurrency) == Max(i + concurrency, 0 - MaxUnderflow)

\* the urls argument; the loop family follows shorter lists to their end
BatchUrls(fam) == IF fam = "loop" THEN UrlLists(MaxUrls - 1) ELSE UrlLists(MaxUrls)

\* a caller invokes generateMultipleComponents(urls, options)
CallBatch ==
  /\ bpc = "idle"
  /\ \E us \in BatchUrls(family), c \in ConcurrencyOptions, w \in BOOLEAN :
        /\ urls' = us
        /\ batchOptions' = [concurrency |-> c, writeToFile |-> w]
        /\ runs' = [u \in DOMAIN us |-> IdleRun]
  /\ idx' = 0
  /\ results' = <<>>
  /\ batch' = <<>>
  /\ bpc' = "loop"
  /\ UNCHANGED <<family, mcpVars, genVars, registryUsers, delayed>>

\* the for-loop test and, when it passes, the batch.map(...) that starts the runs
LoopStep ==
  /\ bpc = "loop"
  /\ IF idx < Len(urls)
     THEN LET c == Concurrency(batchOptions.concurrency)
              positions == SlicePositions(Len(urls), idx, idx + c)
          IN /\ batch' = positions
             /\ runs' = [u \in DOMAIN runs |->
                           IF u \in Range(positions) THEN StartRun(urls[u]) ELSE runs[u]]
             /\ bpc' = "await"
             /\ delayed' = FALSE
     ELSE /\ bpc' = "done"
          /\ UNCHANGED <<batch, runs, delayed>>
  /\ UNCHANGED <<family, mcpVars, genVars, registryUsers, urls, batchOptions, idx, results>>

\* getComponentFromUrl resolves: validate, generate, then write or return
FetchResolve(u) ==
  /\ runs[u].state = "fetching"
  /\ \E node \in BatchTrees :
        /\ CallGenerator(node, <<>>)
        /\ runs' = [runs EXCEPT ![u] =
              IF ~validateComponent(node).isValid \/ ~lastResult'.ok
              THEN FailedRun
              ELSE [state |-> IF batchOptions.writeToFile THEN "mkdir" ELSE "ok",
                    spec |-> lastResult'.spec, node |-> node, content |-> <<>>]]
  /\ registryUsers' = registryUsers \cup {u}
  /\ UNCHANGED <<family, mcpVars, bpc, urls, batchOptions, idx, batch, results, delayed>>

\* ensureDirectoryExists resolves: generateFileContent, then writeFile is awaited
MkdirDone(u) ==
  /\ runs[u].state = "mkdir"
  /\ runs' = [runs EXCEPT ![u].state = "writing",
                          ![u].content = <<generateFileContent(options, runs[u].spec)>>]
  /\ UNCHANGED <<family, mcpVars, genVars, registryUsers, bpc, urls, batchOptions, idx, batch,
                 results, delayed>>

\* writeFile resolves and the run returns its componentSpec
WriteDone(u) ==
  /\ runs[u].state = "writing"
  /\ runs' = [runs EXCEPT ![u].state = "ok"]
  /\ UNCHANGED <<family, mcpVars, genVars, registryUsers, bpc, urls, batchOptions, idx, batch,
                 results, delayed>>

\* the awaited fetch, mkdir or write rejects and the run throws
RunRejects(u) ==
  /\ runs[u].state \in InFlightStates
  /\ runs' = [runs EXCEPT ![u] = FailedRun]
  /\ UNCHANGED <<family, mcpVars, genVars, registryUsers, bpc, urls, batchOptions, idx, batch,
                 results, delayed>>

\* await Promise.all(batchPromises), results.push(...), and the delay test
AwaitAll ==
  /\ bpc = "await"
  /\ \A i \in DOMAIN batch : batchPromise(runs[batch[i]]).state # "pending"
  /\ LET c == Concurrency(batchOptions.concurrency) IN
     IF \E i \in DOMAIN batch : batchPromise(runs[batch[i]]).state = "rejected"
     THEN /\ bpc' = "rejected"
          /\ UNCHANGED <<results, idx>>
     ELSE /\ results' = results \o NonNull(runs, batch)
          /\ IF idx + c < Len(urls)
             THEN bpc' = "delay" /\ idx' = idx
             ELSE bpc' = "loop" /\ idx' = idx + c
  /\ UNCHANGED <<family, mcpVars, genVars, registryUsers, urls, batchOptions, batch, runs, delayed>>

\* the setTimeout of the inter-batch delay fires; i += concurrency
DelayElapsed ==
  /\ bpc = "delay"
  /\ idx' = NextIndex(idx, Concurrency(batchOptions.concurrency))
  /\ bpc' = "loop"
  /\ delayed' = TRUE
  /\ UNCHANGED <<family, mcpVars, genVars, registryUsers, urls, batchOptions, batch, runs, results>>

(***************************************************************************)
(* FigmaMCPClient: requests, the SSE connection, disconnect                *)
(***************************************************************************)
CanSend(n) == mcpClient.requestId + n - 1 <= MaxRequests

\* the POST of request k is answered: on the HTTP path the response settles
\* the request, on the SSE path nothing is attached to its success
PostOk(k) ==
  /\ requests[k].post = "inflight"
  /\ \E error \in BOOLEAN :
        requests' = [requests EXCEPT ![k] =
           IF @.via = "http"
           THEN SettleRequest([@ EXCEPT !.post = "ok"],
                              IF error THEN "rejected" ELSE "resolved")
           ELSE [@ EXCEPT !.post = "ok"]]
  /\ UNCHANGED <<family, genVars, batchVars, mcpClient, integration, lastCall>>

\* the POST of request k fails (no connection, or the 10-second HTTP
\* timeout): on the SSE path the .catch deletes the entry and calls reject
PostFails(k) ==
  /\ requests[k].post = "inflight"
  /\ requests' = [requests EXCEPT ![k] =
                    SettleRequest([@ EXCEPT !.post = "failed"], "rejected")]
  /\ mcpClient' = IF requests[k].via = "sse"
                  THEN [mcpClient EXCEPT !.pendingRequests = @ \ {requests[k].id}]
                  ELSE mcpClient
  /\ UNCHANGED <<family, genVars, batchVars, integration, lastCall>>

\* handleSSEMessage on a response that carries request k's id
SSEMessage(k) ==
  /\ mcpClient.sseConnection = "open"
  /\ requests[k].via = "sse"
  /\ \E error \in BOOLEAN :
        IF requests[k].id \in mcpClient.pendingRequests
        THEN /\ mcpClient' = [mcpClient EXCEPT !.pendingRequests = @ \ {requests[k].id}]
             /\ requests' = [requests EXCEPT ![k] =
                   SettleRequest(@, IF error THEN "rejected" ELSE "resolved")]
        ELSE UNCHANGED <<mcpClient, requests>>
  /\ UNCHANGED <<family, genVars, batchVars, integration, lastCall>>

\* the setTimeout callback of request k runs
Timeout(k) ==
  /\ requests[k].timer = "armed"
  /\ IF requests[k].id \in mcpClient.pendingRequests
     THEN /\ mcpClient' = [mcpClient EXCEPT !.pendingRequests = @ \ {requests[k].id}]
          /\ requests' = [requests EXCEPT ![k] =
                SettleRequest([@ EXCEPT !.timer = "fired"], "rejected")]
     ELSE /\ requests' = [requests EXCEPT ![k].timer = "fired"]
          /\ UNCHANGED mcpClient
  /\ UNCHANGED <<family, genVars, batchVars, integration, lastCall>>

\* onopen: the client emits 'connected' and the integration's listener runs
SSEOpen ==
  /\ mcpClient.sseConnection = "connecting"
  /\ mcpClient' = [mcpClient EXCEPT !.sseConnection = "open"]
  /\ integration' = [integration EXCEPT !.isConnected = TRUE, !.lastConn = "event"]
  /\ UNCHANGED <<family, genVars, batchVars, requests, lastCall>>

\* onerror: the EventSource retries or gives up
SSEError ==
  /\ mcpClient.sseConnection \in {"connecting", "open"}
  /\ \E state \in {"connecting", "closed"} :
        /\ state # mcpClient.sseConnection
        /\ mcpClient' = [mcpClient EXCEPT !.sseConnection = state]
  /\ UNCHANGED <<family, genVars, batchVars, requests, integration, lastCall>>

\* FigmaMCPIntegration.disconnect, with FigmaMCPClient.disconnect and the
\* 'disconnected' listener it runs
Disconnect ==
  /\ mcpClient' = [mcpClient EXCEPT !.sseConnection = "none", !.pendingRequests = {}]
  /\ integration' = [integration EXCEPT !.isConnected = FALSE, !.lastConn = "disconnect"]
  /\ UNCHANGED <<family, genVars, batchVars, requests, lastCall>>

(***************************************************************************)
(* FigmaMCPIntegration: connect and the methods that need the connection   *)
(***************************************************************************)
\* connect() up to its first await
Connect ==
  /\ integration.op = "idle"
  /\ IF ~integration.useMCP
     THEN /\ lastCall' = CallReturned("connect", integration.isConnected, "false")
          /\ UNCHANGED integration
     ELSE /\ CanSend(RequestsOf("connect"))
          /\ lastCall' = CallAwaiting("connect", integration.isConnected, FALSE)
          /\ integration' = [integration EXCEPT !.op = "isAvailable"]
  /\ UNCHANGED <<family, genVars, batchVars, mcpClient, requests>>

\* isAvailable() settles; when the server answers, mcpClient.connect() sends
\* 'initialize'
AvailableSettles ==
  /\ integration.op = "isAvailable"
  /\ \E isAvailable, figmaAPI \in BOOLEAN :
        IF isAvailable
        THEN \E out \in {sendRequest(mcpClient, requests)} :
                /\ mcpClient' = out.client
                /\ requests' = out.requests
                /\ integration' = [integration EXCEPT !.op = "initialize",
                                                      !.req = Len(out.requests)]
                /\ lastCall' = [lastCall EXCEPT !.sent = TRUE]
        ELSE /\ integration' = [integration EXCEPT !.op = "idle"]
             /\ lastCall' = [lastCall EXCEPT !.result =
                   IF integration.fallbackToAPI /\ figmaAPI THEN "false"
                   ELSE IF integration.fallbackToAPI THEN "false" ELSE "throws"]
             /\ UNCHANGED <<mcpClient, requests>>
  /\ UNCHANGED <<family, genVars, batchVars>>

\* 'initialize' settled: mcpClient.connect() returns, isConnected takes its
\* result and, when it is true, getContext is sent
ConnectResumes ==
  /\ integration.op = "initialize"
  /\ requests[integration.req].outcome # "pending"
  /\ \E testResponse \in BOOLEAN :
        IF requests[integration.req].outcome = "resolved" /\ testResponse
        THEN \E out \in {sendRequest(
                  [mcpClient EXCEPT !.sseConnection =
                      IF mcpClient.eventSource THEN "connecting" ELSE @], requests)} :
                /\ mcpClient' = out.client
                /\ requests' = out.requests
                /\ integration' = [integration EXCEPT !.isConnected = TRUE,
                                      !.lastConn = "connect",
                                      !.op = "connectContext", !.req = Len(out.requests)]
                /\ UNCHANGED lastCall
        ELSE /\ integration' = [integration EXCEPT !.isConnected = FALSE, !.op = "idle"]
             /\ lastCall' = [lastCall EXCEPT !.result = "false"]
             /\ UNCHANGED <<mcpClient, requests>>
  /\ UNCHANGED <<family, genVars, batchVars>>

\* generateFromSelection, getContext or navigateToNode up to its first await
GuardedCall(method) ==
  /\ integration.op = "idle"
  /\ IF ~GuardPasses(integration)
     THEN /\ lastCall' = CallReturned(method, integration.isConnected, Refusal(method))
          /\ UNCHANGED <<mcpClient, requests, integration>>
     ELSE /\ CanSend(RequestsOf(method))
          /\ \E out \in {sendRequest(mcpClient, requests)} :
                /\ mcpClient' = out.client
                /\ requests' = out.requests
                /\ integration' = [integration EXCEPT !.op = method,
                                                      !.req = Len(out.requests)]
                /\ lastCall' = [CallAwaiting(method, integration.isConnected, TRUE)
                                  EXCEPT !.sent = out.client.requestId # mcpClient.requestId]
  /\ UNCHANGED <<family, genVars, batchVars>>

\* the awaited request of getContext, navigateToNode or connect's getContext
\* settled and the method returns; the client's methods catch a rejection
MethodReturns ==
  /\ integration.op \in {"connectContext", "getContext", "navigateToNode"}
  /\ requests[integration.req].outcome # "pending"
  /\ integration' = [integration EXCEPT !.op = "idle"]
  /\ lastCall' = [lastCall EXCEPT !.result =
        CASE integration.op = "connectContext" -> "true"
          [] integration.op = "getContext" -> "value"
          [] OTHER -> IF requests[integration.req].outcome = "resolved"
                      THEN "true" ELSE "false"]
  /\ UNCHANGED <<family, genVars, batchVars, mcpClient, requests>>

\* getCurrentSelection settled: without a selection generateFromSelection
\* returns null, else getNodeById is sent
SelectionResumes ==
  /\ integration.op = "generateFromSelection"
  /\ requests[integration.req].outcome # "pending"
  /\ \E selected \in BOOLEAN :
        IF requests[integration.req].outcome = "resolved" /\ selected
        THEN \E out \in {sendRequest(mcpClient, requests)} :
                /\ mcpClient' = out.client
                /\ requests' = out.requests
                /\ integration' = [integration EXCEPT !.op = "getNodeById",
                                                      !.req = Len(out.requests)]
                /\ UNCHANGED lastCall
        ELSE /\ integration' = [integration EXCEPT !.op = "idle"]
             /\ lastCall' = [lastCall EXCEPT !.result = "null"]
             /\ UNCHANGED <<mcpClient, requests>>
  /\ UNCHANGED <<family, genVars, batchVars>>

\* getNodeById settled: generateComponent(node, node.name), the file write,
\* and the return of the componentSpec (null when anything threw)
NodeResumes ==
  /\ integration.op = "getNodeById"
  /\ requests[integration.req].outcome # "pending"
  /\ integration' = [integration EXCEPT !.op = "idle"]
  /\ IF requests[integration.req].outcome = "resolved"
     THEN \E node \in BatchTrees, written \in BOOLEAN :
             /\ CallGenerator(node, node.name)
             /\ lastCall' = [lastCall EXCEPT !.result =
                   IF lastResult'.ok /\ written THEN "value" ELSE "null"]
     ELSE /\ lastCall' = [lastCall EXCEPT !.result = "null"]
          /\ UNCHANGED genVars
  /\ UNCHANGED <<family, batchVars, mcpClient, requests>>

NextMCP ==
  \/ \E k \in DOMAIN requests : PostOk(k)
  \/ \E k \in DOMAIN requests : PostFails(k)
  \/ \E k \in DOMAIN requests : SSEMessage(k)
  \/ \E k \in DOMAIN requests : Timeout(k)
  \/ SSEOpen
  \/ SSEError
  \/ Disconnect
  \/ Connect
  \/ AvailableSettles
  \/ ConnectResumes
  \/ \E method \in GuardedMethods : GuardedCall(method)
  \/ MethodReturns
  \/ SelectionResumes
  \/ NodeResumes

Next == GenerateComponent
NextFile == GenerateComponent \/ GenerateFileContent
NextBatch ==
  \/ CallBatch
  \/ LoopStep
  \/ \E u \in DOMAIN runs : FetchResolve(u)
  \/ \E u \in DOMAIN runs : MkdirDone(u)
  \/ \E u \in DOMAIN runs : WriteDone(u)
  \/ \E u \in DOMAIN runs : RunRejects(u)
  \/ AwaitAll
  \/ DelayElapsed

Spec == Init /\ [][Next]_vars
SpecNames == InitNames /\ [][Next]_vars
SpecBatch == InitBatch /\ [][NextBatch]_vars
\* the event loop runs every continuation that is ready, and every run that
\* was started settles: its mkdir and write complete, and an awaited call
\* that never resolves rejects (the HTTP client's timeout)
RunStep(u) == MkdirDone(u) \/ WriteDone(u) \/ RunRejects(u)
BatchFairness ==
  /\ WF_vars(LoopStep)
  /\ WF_vars(AwaitAll)
  /\ WF_vars(DelayElapsed)
  /\ WF_vars(\E u \in DOMAIN runs : RunStep(u))
SpecBatchFair == InitLoop /\ [][NextBatch]_vars /\ BatchFairness
SpecErrors == InitErrors /\ [][Next]_vars
SpecStyles == InitStyles /\ [][Next]_vars
SpecFile == InitFile /\ [][NextFile]_vars
SpecAnalysis == InitAnalysis /\ [][Next]_vars
SpecMCP == InitMCP /\ [][NextMCP]_vars


(***************************************************************************)
(* Properties: helpers over the latest generateComponent call              *)
(***************************************************************************)
RECURSIVE NodeAt(_, _)
NodeAt(node, path) ==
  IF path = <<>> THEN node ELSE NodeAt(node.children[Head(path)], Tail(path))

IsPrefix(p, q) == Len(p) <= Len(q) /\ \A i \in DOMAIN p : p[i] = q[i]
StrictPrefix(p, q) == IsPrefix(p, q) /\ Len(p) < Len(q)

RECURSIVE PathsOf(_)
PathsOf(node) ==
  { <<>> } \cup UNION { {<<i>> \o p : p \in PathsOf(node.children[i])} :
                          i \in DOMAIN Children(node) }

Called == lastNode # NoNode
Returned == Called /\ lastResult.ok
Markup == IF Returned THEN lastResult.spec.component.body ELSE <<>>
TraceNode(i) == NodeAt(lastNode, lastTrace[i].path)
TraceIsRoot(i) == lastTrace[i].path = <<>>
\* the base style name of the i-th registered node
TraceBase(i) == IF TraceIsRoot(i) THEN ContainerStr ELSE generateStyleName(TraceNode(i).name)
\* the k-th candidate key for a base name: base, base1, base2, ...
Candidate(base, k) == IF k = 0 THEN base ELSE base \o NumToString(k)
EarlierKeys(i) == {lastTrace[h].styleName : h \in 1..(i - 1)}
\* the nodes registered before i under the same base name
EarlierSameBase(i) == {h \in 1..(i - 1) : TraceBase(h) = TraceBase(i)}

\* positions in the markup of the element lines, in document order
ElementLines == {l \in DOMAIN Markup : Markup[l].kind \in {"open", "self"}}
\* the line of the i-th element (0 when the markup has fewer elements)
ElementLine(i) ==
  IF i > Cardinality(ElementLines) THEN 0
  ELSE CHOOSE l \in ElementLines : Cardinality({k \in ElementLines : k <= l}) = i

\* some node with visual content is reached from node through nodes none of
\* which is marked invisible (node itself included)
ReachesContent(node) ==
  \E p \in PathsOf(node) :
     /\ hasVisualContent(NodeAt(node, p))
     /\ \A k \in 0..Len(p) : NotHidden(NodeAt(node, SubSeq(p, 1, k)))

(***************************************************************************)
(* C1: style names within one run                                          *)
(***************************************************************************)
\* C1 (as stated): in one generateComponent run, among the rendered nodes
\* that share a base style name, the first gets the bare base name and the
\* k-th later one gets the base name followed by k; all keys are distinct and
\* no registry entry is overwritten.
C1_SuffixesCountFromOne ==
  Returned =>
    /\ Len(generatedStyles) = Len(lastTrace)
    /\ \A i \in DOMAIN lastTrace :
          (\E j \in DOMAIN lastTrace : j # i /\ TraceBase(j) = TraceBase(i)) =>
             lastTrace[i].styleName = Candidate(TraceBase(i), Cardinality(EarlierSameBase(i)))

\* C1 (amended): every rendered node gets the first of base, base1, base2, ...
\* that no earlier node of the run was registered under; keys are pairwise
\* distinct, suffixes strictly increase within a base name, and the registry
\* holds one entry per rendered node, in order, never overwritten.
C1_FirstFreeCandidate ==
  Returned =>
    /\ Len(generatedStyles) = Len(lastTrace)
    /\ \A i \in DOMAIN lastTrace :
          /\ generatedStyles[i].name = lastTrace[i].styleName
          /\ generatedStyles[i].styles = StyleForNode(TraceNode(i), TraceIsRoot(i))
          /\ \E k \in 0..Len(lastTrace) :
                /\ lastTrace[i].styleName = Candidate(TraceBase(i), k)
                /\ lastTrace[i].styleName \notin EarlierKeys(i)
                /\ \A j \in 0..(k - 1) : Candidate(TraceBase(i), j) \in EarlierKeys(i)
                /\ \A h \in EarlierSameBase(i) :
                      \E j \in 0..(k - 1) : lastTrace[h].styleName = Candidate(TraceBase(i), j)
    /\ \A i, j \in DOMAIN lastTrace :
          i # j => lastTrace[i].styleName # lastTrace[j].styleName

\* three rendered nodes share a base name and the key of another base name
\* sits between their suffixes
C1_Witness ==
  /\ Returned
  /\ \E i, j \in DOMAIN lastTrace :
        /\ i \in EarlierSameBase(j)
        /\ lastTrace[i].styleName = TraceBase(i)
        /\ lastTrace[j].styleName = Candidate(TraceBase(j), 2)
        /\ Cardinality(EarlierSameBase(j)) = 1

(***************************************************************************)
(* C2: the registry after a call                                           *)
(***************************************************************************)
\* C2: after any sequence of generateComponent calls on one generator, the
\* registry holds exactly one entry per node rendered in the latest call, in
\* walk order, each with that node's name and mapping, and the emitted style
\* block holds those entries and no other: nothing is left over from an
\* earlier call.
C2_RegistryHoldsLatestCallOnly ==
  Called =>
    /\ RegNames(generatedStyles) = [i \in DOMAIN lastTrace |-> lastTrace[i].styleName]
    /\ \A i \in DOMAIN lastTrace :
          /\ lastTrace[i].path \in PathsOf(lastNode)
          /\ shouldRenderNode(TraceNode(i))
          /\ generatedStyles[i].styles = StyleForNode(TraceNode(i), TraceIsRoot(i))
    /\ \A i, j \in DOMAIN lastTrace : i # j => lastTrace[i].path # lastTrace[j].path
    /\ Returned =>
          lastResult.spec.styles = IF options.useStyleSheet THEN generatedStyles ELSE <<>>

\* a call that found entries of an earlier call in the registry returned a
\* style block with a single entry
C2_Witness ==
  /\ dirtyEntry
  /\ Returned
  /\ options.useStyleSheet
  /\ Len(lastResult.spec.styles) = 1

(***************************************************************************)
(* C6: determinism                                                         *)
(***************************************************************************)
\* what a generator that never ran before returns for the latest call's arguments
FreshResult ==
  LET out == generateComponent(options, <<>>, lastNode, lastName)
  IN IF out.ok THEN [ok |-> TRUE, spec |-> out.spec]
     ELSE [ok |-> FALSE, error |-> out.error]

\* C6: whatever calls were made on the generator before, generateComponent
\* returns for a node tree, component name and options the ComponentSpec
\* (imports, interfaces, markup, style block) that a freshly constructed
\* generator returns for them.
C6_HistoryIndependent == Called => lastResult = FreshResult

\* a named call rendering several nodes ran on a generator whose registry
\* held entries of an earlier call
C6_Witness ==
  /\ dirtyEntry
  /\ Returned
  /\ lastName # <<>>
  /\ Len(lastTrace) >= 2

(***************************************************************************)
(* C7: invisible nodes                                                     *)
(***************************************************************************)
TextLines == {l \in DOMAIN Markup : Markup[l].kind = "text"}
TextEntries == {i \in DOMAIN lastTrace : TraceNode(i).type = "TEXT"}

\* C7: for every node of the tree with visible = false, shouldRenderNode is
\* false whatever else the node carries, and no style is registered and no
\* markup element or text is emitted for it or for any node below it: every
\* element, text line and registry entry belongs to a registered node whose
\* path does not pass through an invisible node.
C7_InvisibleNodesYieldNothing ==
  Called =>
    /\ \A p \in PathsOf(lastNode) :
          ~NotHidden(NodeAt(lastNode, p)) =>
             /\ ~shouldRenderNode(NodeAt(lastNode, p))
             /\ \A i \in DOMAIN lastTrace : ~IsPrefix(p, lastTrace[i].path)
    /\ Cardinality(ElementLines) = Len(lastTrace)
    /\ Cardinality(TextLines) = Cardinality(TextEntries)
    /\ Len(generatedStyles) = Len(lastTrace)

\* a call rendered something from a tree in which an invisible node has
\* visual content of its own and a child with visual content
C7_Witness ==
  /\ Returned
  /\ lastTrace # <<>>
  /\ \E p \in PathsOf(lastNode) :
        /\ ~NotHidden(NodeAt(lastNode, p))
        /\ hasVisualContent(NodeAt(lastNode, p))
        /\ \E k \in DOMAIN Children(NodeAt(lastNode, p)) :
              hasVisualContent(NodeAt(lastNode, p).children[k])

(***************************************************************************)
(* C8: the renderable predicate                                            *)
(***************************************************************************)
\* renderable as the claim defines it: not invisible, and visual content or
\* a renderable descendant at any depth
RECURSIVE ClaimedRenderable(_)
ClaimedRenderable(node) ==
  /\ NotHidden(node)
  /\ \/ hasVisualContent(node)
     \/ \E p \in PathsOf(node) \ { <<>> } : ClaimedRenderable(NodeAt(node, p))

\* C8 (as stated): for every node of every tree, shouldRenderNode holds
\* exactly when the node is not invisible and has visual content or at least
\* one renderable descendant at any depth.
C8_RenderableDescendantAnyDepth ==
  Called =>
    \A p \in PathsOf(lastNode) :
       shouldRenderNode(NodeAt(lastNode, p)) <=> ClaimedRenderable(NodeAt(lastNode, p))

\* C8 (amended): for every node of every tree, shouldRenderNode holds exactly
\* when some node with visual content is reached from the node through nodes
\* none of which is invisible (the node itself included); a descendant below
\* an invisible node does not make its ancestors renderable.
C8_RenderableIffContentReachable ==
  Called =>
    \A p \in PathsOf(lastNode) :
       shouldRenderNode(NodeAt(lastNode, p)) <=> ReachesContent(NodeAt(lastNode, p))

\* the root has no visual content, nor has any child of it, and it is
\* rendered because of a grandchild
C8_Witness ==
  /\ Returned
  /\ ~hasVisualContent(lastNode)
  /\ \A k \in DOMAIN Children(lastNode) : ~hasVisualContent(lastNode.children[k])
  /\ shouldRenderNode(lastNode)
  /\ Len(lastTrace) >= 3

(***************************************************************************)
(* C9: image placeholders                                                  *)
(***************************************************************************)
ImageTypes == {"VECTOR", "BOOLEAN_OPERATION", "STAR", "POLYGON"}

\* C9: every rendered node of type VECTOR, BOOLEAN_OPERATION, STAR or POLYGON
\* is emitted as an opening View line, one placeholder comment line and the
\* closing View line, and no node below it is registered or emitted.
C9_ImagePlaceholder ==
  Returned =>
    /\ Cardinality(ElementLines) = Len(lastTrace)
    /\ \A i \in DOMAIN lastTrace :
          TraceNode(i).type \in ImageTypes =>
             /\ ElementLine(i) + 2 <= Len(Markup)
             /\ Markup[ElementLine(i)].kind = "open"
             /\ Markup[ElementLine(i)].tag = "View"
             /\ Markup[ElementLine(i) + 1].kind = "comment"
             /\ Markup[ElementLine(i) + 2].kind = "close"
             /\ Markup[ElementLine(i) + 2].tag = "View"
             /\ Markup[ElementLine(i) + 2].ind = Markup[ElementLine(i)].ind
             /\ \A j \in DOMAIN lastTrace :
                   ~StrictPrefix(lastTrace[i].path, lastTrace[j].path)

\* a rendered node of an image type has a child that would render on its own
C9_Witness ==
  /\ Returned
  /\ \E i \in DOMAIN lastTrace :
        /\ TraceNode(i).type \in ImageTypes
        /\ \E k \in DOMAIN Children(TraceNode(i)) :
              shouldRenderNode(TraceNode(i).children[k])

(***************************************************************************)
(* C10: the two forms of a container element                               *)
(***************************************************************************)
IsContainer(node) == node.type # "TEXT" /\ node.type \notin ImageTypes
RenderableChildren(node) ==
  {k \in DOMAIN Children(node) : shouldRenderNode(Children(node)[k])}
\* line l opens an element whose body starts with a child element and which
\* is closed by a line of the same tag and indentation
OpensPair(l) ==
  /\ Markup[l].kind = "open"
  /\ l < Len(Markup)
  /\ Markup[l + 1].kind \in {"open", "self"}
  /\ Markup[l + 1].ind = Markup[l].ind + 4
  /\ \E c \in (l + 2)..Len(Markup) :
        /\ Markup[c].kind = "close"
        /\ Markup[c].tag = Markup[l].tag
        /\ Markup[c].ind = Markup[l].ind
        /\ \A m \in (l + 1)..(c - 1) : Markup[m].ind > Markup[l].ind

\* C10: a rendered container (neither text nor image placeholder) with no
\* renderable child is emitted as one self-closing line, a container with a
\* renderable child as an opening line, its children's markup and the
\* matching closing line; no opening line is directly followed by a closing
\* line.
C10_SelfClosingIffNoRenderableChild ==
  Returned =>
    /\ Cardinality(ElementLines) = Len(lastTrace)
    /\ \A i \in DOMAIN lastTrace :
          IsContainer(TraceNode(i)) =>
             IF RenderableChildren(TraceNode(i)) = {}
             THEN Markup[ElementLine(i)].kind = "self"
             ELSE OpensPair(ElementLine(i))
    /\ \A l \in DOMAIN Markup :
          Markup[l].kind = "open" /\ l < Len(Markup) => Markup[l + 1].kind # "close"

\* one rendered container has a renderable child, and another has children
\* none of which is renderable
C10_Witness ==
  /\ Returned
  /\ \E i, j \in DOMAIN lastTrace :
        /\ IsContainer(TraceNode(i))
        /\ RenderableChildren(TraceNode(i)) # {}
        /\ IsContainer(TraceNode(j))
        /\ Children(TraceNode(j)) # <<>>
        /\ RenderableChildren(TraceNode(j)) = {}

(***************************************************************************)
(* C3, C4, C5: generateMultipleComponents                                  *)
(***************************************************************************)
InFlight == {u \in DOMAIN runs : runs[u].state \in InFlightStates}
\* the ComponentSpecs of the runs that succeeded, in the order of their URLs
SucceededSpecs ==
  LET ok == SelectSeq([u \in DOMAIN runs |-> u], LAMBDA u : runs[u].state = "ok")
  IN [k \in DOMAIN ok |-> runs[ok[k]].spec]

\* C3: no two runs started by the same batch of generateMultipleComponents
\* use (clear, write, read) the same style registry.
C3_RunsOwnTheirRegistry ==
  \A u, v \in registryUsers :
     (u \in Range(batch) /\ v \in Range(batch)) => u = v

\* C4: generateMultipleComponents never rejects on account of a failed run,
\* and when it returns, every URL's run has settled and the returned list is
\* the ComponentSpecs of the runs that succeeded, in URL order.
C4_FailuresAreIsolated ==
  /\ bpc # "rejected"
  /\ bpc = "done" =>
        /\ \A u \in DOMAIN runs : Settled(runs[u])
        /\ results = SucceededSpecs

\* the call returned a non-empty list although a run failed, and a run of a
\* later URL succeeded after it
C4_Witness ==
  /\ bpc = "done"
  /\ results # <<>>
  /\ \E u, v \in DOMAIN runs :
        u < v /\ runs[u].state = "failed" /\ runs[v].state = "ok"

\* C5: whenever runs are in flight they number at most `concurrency`
\* (default 3), every run in flight belongs to the current batch, a batch
\* after the first starts only once the inter-batch delay has elapsed, and
\* the delay is entered only while URLs remain to be started.
C5_BoundedConcurrency ==
  /\ InFlight # {} => Cardinality(InFlight) <= Concurrency(batchOptions.concurrency)
  /\ InFlight \subseteq Range(batch)
  /\ (bpc = "loop" /\ idx > 0 /\ idx < Len(urls)) => delayed
  /\ bpc = "delay" => \E u \in DOMAIN runs : runs[u].state = "idle"

(***************************************************************************)
(* C11: order of children, markup elements and registry entries            *)
(***************************************************************************)
\* p comes before q in a depth-first pre-order walk that takes children in
\* their original order
PreOrderBefore(p, q) ==
  \/ StrictPrefix(p, q)
  \/ \E k \in 1..Min(Len(p), Len(q)) :
        p[k] < q[k] /\ \A h \in 1..(k - 1) : p[h] = q[h]
\* the reference to the i-th registry entry, as a non-root element writes it
OwnReference(i) ==
  IF options.useStyleSheet THEN <<"styles", generatedStyles[i].name>>
  ELSE <<"inline", generatedStyles[i].styles>>
RefersTo(l, i) ==
  Markup[l].ref = OwnReference(i) \/ Markup[l].ref = <<"array", OwnReference(i), "style">>

\* C11: the nodes are registered in depth-first pre-order with the children
\* of every node in their original order, the i-th markup element is the
\* element of the i-th registered node (nested as deep as the node lies in
\* the tree), and the style block lists the registry in that same order.
C11_OrderPreserved ==
  Returned =>
    /\ Cardinality(ElementLines) = Len(lastTrace)
    /\ RegNames(generatedStyles) = [i \in DOMAIN lastTrace |-> lastTrace[i].styleName]
    /\ \A i, j \in DOMAIN lastTrace :
          i < j => PreOrderBefore(lastTrace[i].path, lastTrace[j].path)
    /\ \A i \in DOMAIN lastTrace :
          /\ RefersTo(ElementLine(i), i)
          /\ Markup[ElementLine(i)].ind = 4 * (Len(lastTrace[i].path) + 1)
    /\ options.useStyleSheet => lastResult.spec.styles = generatedStyles

\* a rendered node has rendered children and a rendered sibling after it
C11_Witness ==
  /\ Returned
  /\ \E i, j, k \in DOMAIN lastTrace :
        /\ i < j /\ j < k
        /\ lastTrace[i].path # <<>>
        /\ StrictPrefix(lastTrace[i].path, lastTrace[j].path)
        /\ Len(lastTrace[k].path) = Len(lastTrace[i].path)
        /\ lastTrace[k].styleName # lastTrace[j].styleName

(***************************************************************************)
(* C12, C13: failures of generateComponent                                 *)
(***************************************************************************)
\* C12: a generateComponent call whose root node is not renderable raises a
\* GenerationError and returns no ComponentSpec.
C12_UnrenderableRootRaises ==
  (Called /\ ~shouldRenderNode(lastNode)) =>
     (~lastResult.ok /\ lastResult.error.type = "GenerationError")

\* the name a call works with: the caller's, or else the one derived from the root
AttemptedName ==
  IF lastName # <<>> THEN lastName ELSE generateComponentName(lastNode.name)

\* C13: a generateComponent call that fails raises a GenerationError whose
\* componentName is the caller-supplied name or, when none was supplied, the
\* name derived from the root node.
C13_ErrorCarriesAttemptedName ==
  (Called /\ ~lastResult.ok /\ (lastName # <<>> \/ Has(lastNode, "name"))) =>
     /\ lastResult.error.type = "GenerationError"
     /\ lastResult.error.componentName = AttemptedName

(***************************************************************************)
(* C14: background color                                                   *)
(***************************************************************************)
NodeFills(node) == IF Has(node, "fills") THEN node.fills ELSE <<>>
Qualifies(fill) == fill.type = "SOLID" /\ NotHidden(fill)
FirstQualifying(fills) ==
  CHOOSE j \in DOMAIN fills : Qualifies(fills[j]) /\ \A h \in 1..(j - 1) : ~Qualifies(fills[h])
\* the color's alpha times the fill's opacity, each 1 when absent
FillAlpha(fill) ==
  RatMul(IF Has(fill.color, "a") THEN fill.color.a ELSE One,
         IF Has(fill, "opacity") THEN fill.opacity ELSE One)
\* the integer nearest to c * 255, halves upwards
Nearest255(c) ==
  CHOOSE k \in 0..255 : 2 * k * c.d - c.d <= 510 * c.n /\ 510 * c.n < 2 * k * c.d + c.d
\* the alpha a color string prints, as a fraction
PrintedAlpha(str) == [n |-> str[5], d |-> IF Len(str) = 6 THEN str[6] ELSE 1]
SameFraction(p, q) == p.n * q.d = q.n * p.d
ColorStringFor(str, fill) ==
  /\ str[2] = Nearest255(fill.color.r)
  /\ str[3] = Nearest255(fill.color.g)
  /\ str[4] = Nearest255(fill.color.b)
  /\ IF SameFraction(FillAlpha(fill), One)
     THEN str[1] = "rgb" /\ Len(str) = 4
     ELSE str[1] = "rgba" /\ SameFraction(PrintedAlpha(str), FillAlpha(fill))

\* C14: the registered mapping of every rendered node has a backgroundColor
\* exactly when some fill of the node is SOLID and not hidden; it is then the
\* color of the first such fill in list order, printed as rgb(R, G, B) when
\* color alpha times fill opacity is 1 and as rgba(R, G, B, A) with that
\* product otherwise, R, G and B being the channels times 255, rounded.
C14_BackgroundFromFirstSolidFill ==
  Returned =>
    \A i \in DOMAIN lastTrace :
       IF \E j \in DOMAIN NodeFills(TraceNode(i)) : Qualifies(NodeFills(TraceNode(i))[j])
       THEN /\ HasKey(generatedStyles[i].styles, "backgroundColor")
            /\ ColorStringFor(Get(generatedStyles[i].styles, "backgroundColor"),
                 NodeFills(TraceNode(i))[FirstQualifying(NodeFills(TraceNode(i)))])
       ELSE ~HasKey(generatedStyles[i].styles, "backgroundColor")

\* a rendered node's first fill does not qualify and its second one is a
\* solid fill whose alpha is below 1
C14_Witness ==
  /\ Returned
  /\ \E i \in DOMAIN lastTrace :
        /\ Len(NodeFills(TraceNode(i))) = 2
        /\ ~Qualifies(NodeFills(TraceNode(i))[1])
        /\ Qualifies(NodeFills(TraceNode(i))[2])
        /\ ~SameFraction(FillAlpha(NodeFills(TraceNode(i))[2]), One)

(***************************************************************************)
(* C15, C16, C19, C20: the style mapping of a node                         *)
(***************************************************************************)
Mapping(i) == generatedStyles[i].styles
HasNum(styles, key, n) == HasKey(styles, key) /\ Get(styles, key) = <<"num", n>>
HasStr(styles, key, str) == HasKey(styles, key) /\ Get(styles, key) = <<"str", str>>

\* C15: the registered mapping of every rendered node that has a HORIZONTAL
\* or VERTICAL auto-layout block with an itemSpacing value has flexDirection
\* row or column, has marginRight or marginBottom equal to itemSpacing, and
\* has neither an itemSpacing nor a gap key.
C15_ItemSpacingBecomesMargin ==
  Returned =>
    \A i \in DOMAIN lastTrace :
       (/\ Has(TraceNode(i), "layoutMode")
        /\ TraceNode(i).layoutMode \in {"HORIZONTAL", "VERTICAL"}
        /\ Has(TraceNode(i), "itemSpacing")) =>
          /\ HasStr(Mapping(i), "flexDirection",
                    IF TraceNode(i).layoutMode = "HORIZONTAL" THEN "row" ELSE "column")
          /\ HasNum(Mapping(i),
                    IF TraceNode(i).layoutMode = "HORIZONTAL" THEN "marginRight"
                    ELSE "marginBottom",
                    TraceNode(i).itemSpacing)
          /\ ~HasKey(Mapping(i), "itemSpacing")
          /\ ~HasKey(Mapping(i), "gap")

\* the fields the claim's conversion reads
GeometryFields == {"x", "y", "width", "height"}
PlainBox(node) ==
  /\ GeometryFields \subseteq DOMAIN node
  /\ DOMAIN node \subseteq
       GeometryFields \cup {"name", "type", "children", "fills", "cornerRadius", "effects"}
  /\ \A e \in DOMAIN (IF Has(node, "effects") THEN node.effects ELSE <<>>) :
        ~IsDropShadow(node.effects[e])

\* C16: converting a rendered node that has x, y, width and height (and no
\* stroke, opacity, auto-layout or shadow) yields position 'absolute',
\* left = x, top = y, width and height as given, backgroundColor exactly when
\* a solid visible fill exists, borderRadius exactly when cornerRadius
\* exists, and no other key.
C16_GeometryCopied ==
  Returned =>
    \A i \in DOMAIN lastTrace :
       PlainBox(TraceNode(i)) =>
          /\ HasStr(nodeToStyles(TraceNode(i)), "position", "absolute")
          /\ HasNum(nodeToStyles(TraceNode(i)), "left", TraceNode(i).x)
          /\ HasNum(nodeToStyles(TraceNode(i)), "top", TraceNode(i).y)
          /\ HasNum(nodeToStyles(TraceNode(i)), "width", TraceNode(i).width)
          /\ HasNum(nodeToStyles(TraceNode(i)), "height", TraceNode(i).height)
          /\ Keys(nodeToStyles(TraceNode(i))) =
               {"position", "left", "top", "width", "height"}
               \cup (IF \E j \in DOMAIN NodeFills(TraceNode(i)) :
                           Qualifies(NodeFills(TraceNode(i))[j])
                     THEN {"backgroundColor"} ELSE {})
               \cup (IF Has(TraceNode(i), "cornerRadius") THEN {"borderRadius"} ELSE {})

\* C19: after a generateComponent call whose root is renderable, the first
\* registry entry is the root's, its name is 'container', and its mapping has
\* alignSelf 'stretch' and neither left nor top.
C19_RootIsStretchedContainer ==
  (Returned /\ shouldRenderNode(lastNode)) =>
     /\ lastTrace # <<>>
     /\ lastTrace[1].path = <<>>
     /\ generatedStyles[1].name = ContainerStr
     /\ HasStr(Mapping(1), "alignSelf", "stretch")
     /\ ~HasKey(Mapping(1), "left")
     /\ ~HasKey(Mapping(1), "top")
     /\ \A i \in DOMAIN lastTrace : i # 1 => generatedStyles[i].name # ContainerStr

\* a root that carries x and y was rendered, with a child, by a generator
\* whose registry held entries of an earlier call
C19_Witness ==
  /\ Returned
  /\ dirtyEntry
  /\ shouldRenderNode(lastNode)
  /\ Has(lastNode, "x") /\ Has(lastNode, "y")
  /\ Len(lastTrace) >= 2

ParentOf(i) == NodeAt(lastNode, SubSeq(lastTrace[i].path, 1, Len(lastTrace[i].path) - 1))

\* C20: the registered mapping of a rendered non-root node has neither left
\* nor top when the node's parent has an auto-layout block, and has left = x
\* and top = y (when the node carries them) when the parent has none.
C20_ParentLayoutDecidesPosition ==
  Returned =>
    \A i \in DOMAIN lastTrace :
       ~TraceIsRoot(i) =>
          IF Has(ParentOf(i), "layoutMode")
          THEN ~HasKey(Mapping(i), "left") /\ ~HasKey(Mapping(i), "top")
          ELSE /\ Has(TraceNode(i), "x") => HasNum(Mapping(i), "left", TraceNode(i).x)
               /\ Has(TraceNode(i), "y") => HasNum(Mapping(i), "top", TraceNode(i).y)


\* C18: whenever the root node is rendered, the style reference of its
\* element is the two-element composition [registered style, style prop], and
\* the element of every non-root node references only the node's own
\* registered style.
C18_RootComposesStyleProp ==
  (Returned /\ shouldRenderNode(lastNode)) =>
     \A i \in DOMAIN lastTrace :
        Markup[ElementLine(i)].ref =
          IF TraceIsRoot(i) THEN <<"array", OwnReference(i), "style">> ELSE OwnReference(i)


(***************************************************************************)
(* C17: the text of generateFileContent                                    *)
(***************************************************************************)
\* the sections a text runs through, top to bottom
RECURSIVE SectionOrder(_)
SectionOrder(text) ==
  IF text = <<>> THEN <<>>
  ELSE IF Len(text) >= 2 /\ text[1].sec = text[2].sec THEN SectionOrder(Tail(text))
  ELSE << text[1].sec >> \o SectionOrder(Tail(text))
SectionOf(text, sec) == SelectSeq(text, LAMBDA l : l.sec = sec)
Body(text) == SelectSeq(text, LAMBDA l : l.sec # "end")
FileSpec == lastResult.spec

\* C17: every text generateFileContent returned for the latest ComponentSpec
\* runs through imports, a blank line, the interface (if any), the component,
\* a blank line, the style block (if any) and the export statement, in that
\* order and each section verbatim; with formatCode it has no three blank
\* lines in a row and ends with exactly one newline; and all the texts
\* returned for the same ComponentSpec are equal.
C17_FileContentLayout ==
  \A c \in DOMAIN fileContents :
     /\ SectionOrder(Body(fileContents[c])) =
          <<"imports", "blank">>
          \o (IF FileSpec.interfaces # <<>> THEN <<"interface">> ELSE <<>>)
          \o <<"component", "blank">>
          \o (IF FileSpec.styles # <<>> THEN <<"styles">> ELSE <<>>)
          \o <<"exports">>
     /\ SectionOf(fileContents[c], "imports") = ImportLines(FileSpec)
     /\ FileSpec.interfaces # <<>> =>
           SectionOf(fileContents[c], "interface") = InterfaceLines(FileSpec.interfaces)
     /\ SectionOf(fileContents[c], "component") = ComponentLines(FileSpec.component)
     /\ FileSpec.styles # <<>> =>
           SectionOf(fileContents[c], "styles") = StyleLines(FileSpec.styles)
     /\ SectionOf(fileContents[c], "exports") = ExportLines(FileSpec)
     /\ options.formatCode =>
           /\ \A i \in 1..(Len(fileContents[c]) - 2) :
                 ~(fileContents[c][i].blank /\ fileContents[c][i + 1].blank
                   /\ fileContents[c][i + 2].blank)
           /\ fileContents[c][Len(fileContents[c])] = EmptyLine("end")
           /\ ~fileContents[c][Len(fileContents[c]) - 1].blank
     /\ fileContents[c] = fileContents[1]


(***************************************************************************)
(* C21, C22: defaults and borders in the registered mappings               *)
(***************************************************************************)
ImplicitDefaults ==
  { <<"opacity", 1>>, <<"borderWidth", 0>>, <<"borderRadius", 0>>,
    <<"padding", 0>>, <<"margin", 0>>, <<"flex", 0>> }
AtDefault(entry) == \E d \in ImplicitDefaults : entry.k = d[1] /\ entry.v = <<"num", d[2]>>

\* C21: no mapping in the registry holds opacity 1, borderWidth 0,
\* borderRadius 0, padding 0, margin 0 or flex 0, and every registered
\* mapping is the mapping built for its node with exactly those entries
\* removed, the others unchanged and in their order.
C21_NoImplicitDefaultStored ==
  Returned =>
    \A i \in DOMAIN lastTrace :
       /\ \A e \in DOMAIN Mapping(i) : ~AtDefault(Mapping(i)[e])
       /\ Mapping(i) = SelectSeq(StyleBeforeOptimize(TraceNode(i), TraceIsRoot(i)),
                                 LAMBDA entry : ~AtDefault(entry))

\* a rendered node with cornerRadius 0 was registered without borderRadius
\* and with its other properties
C21_Witness ==
  /\ Returned
  /\ \E i \in DOMAIN lastTrace :
        /\ Has(TraceNode(i), "cornerRadius") /\ TraceNode(i).cornerRadius = 0
        /\ HasKey(StyleBeforeOptimize(TraceNode(i), TraceIsRoot(i)), "borderRadius")
        /\ ~HasKey(Mapping(i), "borderRadius")
        /\ Mapping(i) # <<>>

NodeStrokes(node) == IF Has(node, "strokes") THEN node.strokes ELSE <<>>
StrokeQualifies(stroke) == NotHidden(stroke) /\ stroke.type = "SOLID" /\ Has(stroke, "color")
FirstQualifyingStroke(strokes) ==
  strokes[CHOOSE j \in DOMAIN strokes :
            StrokeQualifies(strokes[j]) /\ \A h \in 1..(j - 1) : ~StrokeQualifies(strokes[h])]

\* C22: the registered mapping of a rendered node holds borderColor (the
\* color of the node's first visible SOLID stroke), borderWidth 1 and
\* borderStyle 'solid' when the node has such a stroke, and none of the three
\* keys when it has none.
C22_BorderFromFirstVisibleSolidStroke ==
  Returned =>
    \A i \in DOMAIN lastTrace :
       IF \E j \in DOMAIN NodeStrokes(TraceNode(i)) : StrokeQualifies(NodeStrokes(TraceNode(i))[j])
       THEN /\ HasKey(Mapping(i), "borderColor")
            /\ Get(Mapping(i), "borderColor") =
                 colorToString(FirstQualifyingStroke(NodeStrokes(TraceNode(i))).color)
            /\ HasNum(Mapping(i), "borderWidth", 1)
            /\ HasStr(Mapping(i), "borderStyle", "solid")
       ELSE /\ ~HasKey(Mapping(i), "borderColor")
            /\ ~HasKey(Mapping(i), "borderWidth")
            /\ ~HasKey(Mapping(i), "borderStyle")


(***************************************************************************)
(* C23, C27: the analysis of the tree, and the imports                     *)
(***************************************************************************)
\* the positions the analyzer's traversal reaches: below the root, with every
\* node on the way down (the node itself included) renderable
ReachedPaths(node) ==
  {p \in PathsOf(node) :
      /\ p # <<>>
      /\ \A k \in 1..Len(p) : shouldRenderNode(NodeAt(node, SubSeq(p, 1, k)))}
ReachesText(node) == \E p \in ReachedPaths(node) : NodeAt(node, p).type = "TEXT"
ReachesNonBlankText(node) ==
  \E p \in ReachedPaths(node) :
     /\ NodeAt(node, p).type = "TEXT"
     /\ Has(NodeAt(node, p), "characters")
     /\ NonBlank(NodeAt(node, p).characters)
ReachesImage(node) == \E p \in ReachedPaths(node) : NodeAt(node, p).type \in ImageTypes
ReachesInteractive(node) == \E p \in ReachedPaths(node) : LooksInteractive(NodeAt(node, p))
PropsFor(text, interactive, images) ==
  (IF text THEN <<"title", "subtitle", "description">> ELSE <<>>)
  \o (IF interactive THEN <<"onPress", "onLongPress", "disabled">> ELSE <<>>)
  \o (IF images THEN <<"imageSource", "imageStyle">> ELSE <<>>)

\* C23 as stated: the analysis of the node passed to generateComponent has
\* hasText exactly when the traversal reaches a text node with non-blank
\* content, hasImages exactly when it reaches a node of an image type, and
\* the suggested props follow from the flags in the fixed order.
C23_HasTextIffNonBlankTextReached ==
  Called =>
    /\ analyzeComponent(lastNode).hasText <=> ReachesNonBlankText(lastNode)
    /\ analyzeComponent(lastNode).hasImages <=> ReachesImage(lastNode)
    /\ analyzeComponent(lastNode).suggestedProps =
         PropsFor(ReachesNonBlankText(lastNode), ReachesInteractive(lastNode),
                  ReachesImage(lastNode))

\* C23 amended: hasText holds exactly when the traversal reaches a node of
\* type TEXT, whatever its content; hasImages and the suggested props as
\* stated.
C23_HasTextIffTextReached ==
  Called =>
    /\ analyzeComponent(lastNode).hasText <=> ReachesText(lastNode)
    /\ analyzeComponent(lastNode).hasImages <=> ReachesImage(lastNode)
    /\ analyzeComponent(lastNode).hasInteractiveElements <=> ReachesInteractive(lastNode)
    /\ analyzeComponent(lastNode).suggestedProps =
         PropsFor(ReachesText(lastNode), ReachesInteractive(lastNode),
                  ReachesImage(lastNode))

\* the traversal reached a text without content (rendered for its fill), and
\* a text lies in a subtree the traversal pruned
C23_Witness ==
  /\ Called
  /\ ReachesText(lastNode) /\ ~ReachesNonBlankText(lastNode)
  /\ analyzeComponent(lastNode).hasText
  /\ \E p \in PathsOf(lastNode) \ ReachedPaths(lastNode) :
        p # <<>> /\ NodeAt(lastNode, p).type = "TEXT"
           /\ NonBlank(extractTextContent(NodeAt(lastNode, p)))

ImportsText == \E i \in DOMAIN lastResult.spec.imports[2] : lastResult.spec.imports[2][i] = "Text"

\* C27: whenever the markup of the returned component has a Text element the
\* react-native import names Text, and whenever the import names Text the
\* tree has a text node.
C27_ImportsAgreeWithMarkup ==
  Returned =>
    /\ (\E l \in DOMAIN Markup : Markup[l].tag = "Text") => ImportsText
    /\ ImportsText => \E p \in PathsOf(lastNode) : NodeAt(lastNode, p).type = "TEXT"


\* the style name a `styles.name` reference (alone or composed) points at
RefName(ref) == IF ref[1] = "array" THEN ref[2][2] ELSE ref[2]
ReferencedNames == {RefName(Markup[l].ref) : l \in ElementLines}
StyleBlockKeys == {lastResult.spec.styles[i].name : i \in DOMAIN lastResult.spec.styles}

\* C28: with useStyleSheet, after a generateComponent call the style names
\* referenced by the markup's elements are exactly the keys of the style
\* block, the keys are pairwise distinct, and the element of each rendered
\* node references the key the node was registered under.
C28_ReferencesMatchStyleBlock ==
  (Returned /\ options.useStyleSheet) =>
     /\ ReferencedNames = StyleBlockKeys
     /\ \A i, j \in DOMAIN lastResult.spec.styles :
           lastResult.spec.styles[i].name = lastResult.spec.styles[j].name => i = j
     /\ Len(lastResult.spec.styles) = Len(lastTrace)
     /\ \A i \in DOMAIN lastTrace :
           /\ RefName(Markup[ElementLine(i)].ref) = lastTrace[i].styleName
           /\ lastResult.spec.styles[i].name = lastTrace[i].styleName

\* three or more nodes of the same name were rendered by a generator whose
\* registry held entries of an earlier call
C28_Witness ==
  /\ Returned /\ options.useStyleSheet
  /\ dirtyEntry
  /\ Len(lastTrace) >= 3
  /\ Cardinality(ReferencedNames) >= 3


(***************************************************************************)
(* C29, C30: the batch loop                                                *)
(***************************************************************************)
\* C29: every generateMultipleComponents call, whatever its URL list and its
\* concurrency option, eventually returns or rejects, given that every run
\* it starts settles.
C29_BatchTerminates == (bpc = "loop") ~> (bpc \in {"done", "rejected"})

\* what generateComponent returns for node on a generator no other run uses
OwnSpec(node) == generateComponent(options, <<>>, node, <<>>).spec
\* the runs that hold a componentSpec
RunsWithSpec == {u \in DOMAIN runs : runs[u].spec # <<>>}
\* C30: in a batch, every run's componentSpec is the one its own node gives
\* on a fresh generator, and the file content it writes is the content of that
\* componentSpec; nothing of another run's registry shows in either.
C30_RunsAreIsolated ==
  \A u \in RunsWithSpec :
     /\ runs[u].spec = OwnSpec(runs[u].node)
     /\ runs[u].content # <<>> =>
          runs[u].content = <<generateFileContent(options, OwnSpec(runs[u].node))>>
\* two runs of one batch, on different nodes, the second generated before the
\* first wrote its file, and both files handed to writeFile
C30_Witness ==
  \E u, v \in RunsWithSpec :
     /\ u # v
     /\ runs[u].node # runs[v].node
     /\ runs[u].content # <<>>
     /\ runs[v].content # <<>>
     /\ registryUsers = {u, v}
     /\ runs[u].spec.styles # runs[v].spec.styles


(***************************************************************************)
(* C24, C25, C26: the MCP client and the integration                       *)
(***************************************************************************)
SSERequests == {k \in DOMAIN requests : requests[k].via = "sse"}
Unsettled(k) == requests[k].outcome = "pending"
\* what can still settle request k: its entry in pendingRequests, which the
\* response and the timer look up, or the POST that may still fail
CanStillSettle(k) ==
  \/ requests[k].id \in mcpClient.pendingRequests
  \/ requests[k].post = "inflight"

\* C24: every request sent over the SSE path settles, also across a
\* disconnect(): no unsettled request is left with neither a pendingRequests
\* entry nor a POST in flight, since nothing would ever settle it.
C24_NoRequestIsStranded ==
  \A k \in SSERequests : Unsettled(k) => CanStillSettle(k)

\* C25: under every interleaving each request's resolve/reject callback is
\* invoked at most once, pendingRequests is exactly the ids of the unsettled
\* requests sent over SSE, and no two requests of the client share an id.
C25_SettledOnceAndTracked ==
  /\ \A k \in DOMAIN requests : requests[k].calls <= 1
  /\ mcpClient.pendingRequests = {requests[k].id : k \in {l \in SSERequests : Unsettled(l)}}
  /\ \A k, l \in DOMAIN requests : k # l => requests[k].id # requests[l].id

\* C26: isConnected holds only when a successful connect() or a 'connected'
\* event came after the last disconnect(); a generateFromSelection, getContext
\* or navigateToNode call entered while it is false sends no request and
\* returns null (false for navigateToNode); and with useMCP disabled connect()
\* returns false without contacting the server.
C26_ConnectionGuards ==
  /\ integration.isConnected => integration.lastConn \in {"connect", "event"}
  /\ lastCall.op \in GuardedMethods /\ ~lastCall.connected =>
       /\ ~lastCall.sent
       /\ ~lastCall.contacted
       /\ lastCall.result = Refusal(lastCall.op)
  /\ lastCall.op = "connect" /\ ~integration.useMCP =>
       /\ ~lastCall.contacted
       /\ lastCall.result = "false"
\* navigateToNode refused after a connect() succeeded and disconnect() followed
C26_Witness ==
  /\ lastCall.op = "navigateToNode"
  /\ ~lastCall.connected
  /\ lastCall.result = "false"
  /\ integration.lastConn = "disconnect"
  /\ Len(requests) >= 2

====
